---- MODULE Spec2Model ----
(***************************************************************************)
(* fray: resumable OCI image pulls.                                        *)
(*                                                                         *)
(* State machines of the pull-through proxy (pkg/proxy), the OCI layout    *)
(* (pkg/store/layout.go), the resumable puller (pkg/store/pull.go), the    *)
(* chunk store (pkg/store/store.go) and the chunk tree (pkg/merkle).       *)
(*                                                                         *)
(*   SpecProxy   concurrent manifest handlers and the pullImage guard      *)
(*   SpecLayout  concurrent Layout.WriteBlob callers, with crashes         *)
(*   SpecPull    one Puller.Pull with faults, crashes and re-invocation    *)
(*   SpecStore   Store.FetchMissing, sequential and parallel, with cancel  *)
(***************************************************************************)
EXTENDS Integers, Sequences, FiniteSets, TLC

(***************************************************************************)
(* Bounds of the model.                                                    *)
(***************************************************************************)
\* number of concurrent proxy manifest requests
NumHandlers == 2
\* size in bytes of the large layer of the pulled image
LayerSize == 4
\* faults (upstream failures, wrong bodies, local I/O errors) per behaviour
MaxFaults == 1
\* process crashes per behaviour
MaxCrashes == 1
\* invocations of Puller.Pull, and of Store.FetchMissing, per behaviour
MaxRuns == 2
\* largest Store.parallelism
MaxWorkers == 2
\* concurrent callers of Layout.WriteBlob
NumWriters == 2
\* SetChunk calls on each of the two trees set in different orders
MaxApply == 3

(***************************************************************************)
(* Program constants.                                                      *)
(***************************************************************************)
\* merkle.EmptyHash
EmptyHash == 0
\* downloadLayerResumable saves the tree when chunkIdx % 10 == 0
SaveEvery == 10
\* Hash.String prints 16 hexadecimal digits
HexWidth == 16

(***************************************************************************)
(* Shared values.                                                          *)
(***************************************************************************)
\* a blob path with no file (no file holds the byte -1)
NoFile == <<-1>>
\* a state path with no file
NoState == [kind |-> "nofile"]
\* a state file whose write was cut short: json.Unmarshal fails on it
Truncated == [kind |-> "truncated"]
\* no tree in memory
NoTree == [kind |-> "notree"]

\* the annotation key org.opencontainers.image.ref.name is the field ref
Desc(digest, ref) == [digest |-> digest, ref |-> ref]

\* image strings a client may ask the proxy for; two tags of one repository
\* resolve to the same manifest
Images == {"r/a:1", "r/a:2", "r/b:1"}

\* sha256 of the marshalled manifest the registry serves for an image
ManifestDigestOf(image) == IF image = "r/b:1" THEN "mB" ELSE "mA"

ManifestDigests == {ManifestDigestOf(i) : i \in Images}

\* the manifest of the image the puller model pulls: a config and two layers
PullImage == "r/a:1"
ConfigDigest == "cA"
Layers == <<"lX", "lY">>
LayerDigests == {Layers[i] : i \in 1..Len(Layers)}
LayerSizeOf(digest) == IF digest = "lX" THEN LayerSize ELSE 1

\* manifest.Config.Size
ConfigSize == LayerSizeOf(ConfigDigest)

Digests == ManifestDigests \cup {ConfigDigest} \cup LayerDigests

\* the bytes whose sha256 is the digest: the k-th byte of a layer is k
TrueBytes(digest) ==
    IF digest \in LayerDigests
    THEN [k \in 1..LayerSizeOf(digest) |-> k]
    ELSE <<1>>

\* a byte no blob holds at any offset
Bad == LayerSize + 2

\* configured chunk sizes (PullOptions.ChunkSize) a run may use
ChunkSizes == {2, 3}

\* result := &PullResult{}
NoResult == [Layers |-> 0, TotalSize |-> 0, Downloaded |-> 0, Cached |-> 0]

\* errors Puller.Pull can return to the proxy
PullErrors == {"NotFound", "Unauthorized", "Io"}

Handlers == 1..NumHandlers

\* the layer the Store model downloads, and the chunk sizes of its Store
StoreLayer == "lX"
StoreChunkSizes == {2}
\* chunk-%05d files the layer can have
ChunkIds == 0..(LayerSize - 1)
\* worker goroutines of FetchMissing
Workers == 1..MaxWorkers

\* goroutines calling WriteBlob, the digests and the streams they pass
Writers == 1..NumWriters
WriteDigests == {ConfigDigest, "lY"}
Streams == {<<1>>, <<Bad>>}

\* the digest the callers of WriteBlobAt and FinalizeBlob work on, the
\* offsets and the data they pass: writes overlap, leave gaps and extend the
\* file, and none ends beyond LayerSize
PartialDigests == {"lX"}
AtOffsets == {0, 2}
AtData == {<<>>, <<1>>, <<2, 3>>}
\* no byte written at any offset yet
Blank == [k \in 1..LayerSize |-> -1]

\* digests a blob request may name, as <<algorithm, hex>>; "" is a digest
\* string without a colon
BlobDigestArgs == {<<"sha256", "aa">>, <<"sha256", "bb">>, <<"sha512", "aa">>,
                   <<"", "aa">>}
BlobMethods == {"GET", "HEAD"}
\* sizes of the blob files
BlobLens == {1, 2}
\* Layout.blobPath: blobs/<algorithm>/<hex>, blobs/sha256/<digest> for a
\* digest without a colon; a path is <<directory, pieces of the file name>>
blobPath(digest) ==
    IF digest[1] = "" THEN <<"sha256", <<digest[2]>>>>
    ELSE <<digest[1], <<digest[2]>>>>
\* the path handleBlob builds: blobs/sha256/ + TrimPrefix(digest, "sha256:")
handlerPath(digest) ==
    IF digest[1] \in {"", "sha256"} THEN <<"sha256", <<digest[2]>>>>
    ELSE <<"sha256", <<digest[1], ":", digest[2]>>>>
BlobPaths == {blobPath(d) : d \in BlobDigestArgs}
                 \cup {handlerPath(d) : d \in BlobDigestArgs}
\* directories an OCI layout written by any tool holds: blobs at
\* blobs/<algorithm>/<hex> only
ExistingLayouts ==
    {f \in [BlobPaths -> {-1} \cup BlobLens] :
       \A q \in BlobPaths : f[q] # -1 => \E d \in BlobDigestArgs : q = blobPath(d)}
NoBlobResponse ==
    [digest |-> <<"", "">>, method |-> "", fault |-> "", status |-> 0,
     contentDigest |-> <<"", "">>, contentLength |-> -1, body |-> FALSE]

\* no GetAuth call yet
NoAuthCall == [repo |-> "", creds |-> FALSE, cached |-> FALSE, challenge |-> "",
               result |-> "", err |-> "none"]
\* no selectPlatform call yet; a digest is <<"sha256", n>>, "" is <<>>
NoSelection == [host |-> <<>>, digest |-> <<>>, err |-> "none", available |-> <<>>]
\* a directory entry: the directory it is in (path components below the
\* layout root), its name split at the dots, and whether it is a directory
DirEntry(dir, name, isDir) == [dir |-> dir, name |-> name, isDir |-> isDir]
\* what store.Open leaves in a new directory
FreshLayout == {DirEntry(<<>>, <<"oci-layout">>, FALSE),
                DirEntry(<<>>, <<"index", "json">>, FALSE),
                DirEntry(<<>>, <<"blobs">>, TRUE),
                DirEntry(<<"blobs">>, <<"sha256">>, TRUE)}
\* prune.Result before anything is counted; Errors counts the errors handed
\* to opts.OnDelete
NoPruneResult == [Files |-> 0, Errors |-> 0]

\* what the callers of the merkle package pass: blob sizes and chunk sizes
\* for New, chunk data for SetChunk (one of them the data that hashes to
\* EmptyHash), hashes for SetChunkHash
TreeSizes == 0..LayerSize
TreeChunkSizes == {1, 2}
TreeData == {<<1>>, <<2, 3>>, <<Bad>>}
TreeHashes == {EmptyHash, 1, 255}
\* the blob whose chunks are set in different orders; its second byte alone
\* is a chunk that hashes to EmptyHash
OrderBlob == <<1, Bad, 2>>

\* the descriptors the callers of AddManifest pass: two image strings per
\* manifest digest
IndexDescs == {Desc(ManifestDigestOf(i), i) : i \in Images}
\* no descriptor in hand
NoDesc == Desc("", "")

Max(a, b) == IF a > b THEN a ELSE b

VARIABLES
    \* ---- Layout on disk ----
    blobs,        \* canonical path of a digest -> content or NoFile
    partial,      \* <digest>.partial -> content or NoFile
    index,        \* index.json: sequence of descriptors
    stateFile,    \* .fray/<digest prefix>.state -> State, Truncated or NoFile
    \* ---- proxy Server ----
    pulling,      \* Server.pulling: image -> handler that owns the entry, 0 if none
    stateDone,    \* pullState.done closed, by owning handler
    stateErr,     \* pullState.err, by owning handler
    deleting,     \* image -> number of spawned, not yet run, delete goroutines
    hpc,          \* handler -> position in handleManifest
    himg,         \* handler -> image string of the request
    hrole,        \* handler -> "none" | "hit" | "initiator" | "waiter"
    hjoin,        \* handler -> owner of the pullState it waits on
    herr,         \* handler -> error returned by pullImage ("none" before)
    hdigest,      \* handler -> digest found by findManifestDigest
    hres,         \* handler -> HTTP status written, 0 before
    conc,         \* pairs of handlers that were in flight at the same time
    \* ---- Puller (one process pulling PullImage) ----
    ppc,          \* position in Pull / downloadLayerResumable
    cfgChunk,     \* PullOptions.ChunkSize of the running process
    layerIdx,     \* index of the layer in hand, from 1
    tree,         \* the layer's *merkle.Tree in memory, or NoTree
    todo,         \* chunk indices of tree.MissingRanges() still to fetch
    chunkData,    \* bytes returned by downloadChunk
    saveThen,     \* what follows the saveTree in hand: "next" | "fail"
    perr,         \* errors joined in the error Pull returns, {} if none
    loaded,       \* chunks the tree had when loadOrCreateTree returned it
    fetched,      \* chunks range-fetched by this downloadLayerResumable
    faults,       \* faults injected so far
    crashes,      \* crashes so far
    runs,         \* Pull invocations so far
    \* ---- Store (one layer kept as chunk files) ----
    spc,          \* position in the Store's API: "idle" | "ready" | "seq" |
                  \* "seqfetch" | "par" | "returned"
    stree,        \* LayerState.Tree in memory, or NoTree
    treeFile,     \* <layer dir>/tree.json -> State, Truncated or NoState
    chunkFile,    \* chunk index -> content of chunk-%05d, or NoFile
    storeBlob,    \* <layer dir>/blob -> content or NoFile
    parallelism,  \* Store.parallelism
    cancelled,    \* ctx.Done() is closed
    sret,         \* error FetchMissing returned, "none" while it has not
    aret,         \* result of the last AssembleBlob, "none" before
    missing,      \* the list tree.MissingChunks() of the call
    si,           \* sequential: loop index; parallel: results received
    jobs,         \* the jobs channel: chunk indices sent and not yet taken
    fed,          \* jobs sent by the feeding goroutine
    jobsClosed,   \* close(jobs) has run
    results,      \* the results channel
    wkpc,         \* worker -> "off" | "range" | "fetch" | "exited"
    wkjob,        \* worker -> chunk index of the job in hand
    firstErr,     \* coordinator's firstErr, "none" for nil
    completed,    \* coordinator's completed
    sfaults,      \* faults injected into the Store so far
    scalls,       \* FetchMissing calls so far
    \* ---- callers of Layout.WriteBlob ----
    lmu,          \* Layout.mu: the caller that holds it, 0 if free
    wbpc,         \* caller -> "idle" | "stat" | "copy" | "rename" | "ret"
    wbdig,        \* caller -> digest argument
    wbstream,     \* caller -> bytes the reader argument yields
    wbtmp,        \* caller -> content of its .blob-* temp file, or NoFile
    wbret,        \* caller -> n returned
    wberr,        \* caller -> error returned, "none" for nil
    wbexisted,    \* caller -> the canonical blob existed when mu was taken
    wbcount,      \* caller -> canonical blobs when mu was taken
    firstBytes,   \* digest -> bytes its canonical path first held
    orphans,      \* contents of .blob-* files left by a crash
    lfaults,      \* faults injected into WriteBlob so far
    lcrashes,     \* crashes of the WriteBlob callers' process so far
    \* ---- callers of WriteBlobAt, FinalizeBlob and AddManifest ----
    laid,         \* digest -> offset -> byte the successful WriteBlobAt calls
                  \* put there since the .partial file was created, -1 if none
    torn,         \* digest -> a WriteBlobAt on the .partial file failed midway
    indexTorn,    \* index.json is cut short: json.Unmarshal fails on it
    amidx,        \* caller -> the Index readIndex returned
    amdesc,       \* caller -> descriptor argument of AddManifest
    added,        \* digest -> the last descriptor of that digest whose
                  \* AddManifest wrote the index, NoDesc if none
    \* ---- callers of the merkle package ----
    mt,           \* a *merkle.Tree in the hands of a caller
    mtop,         \* the last operation applied to mt
    mtB,          \* a second tree over the same blob as mt
    ordA,         \* chunk indices passed to mt.SetChunk, in call order
    ordB,         \* chunk indices passed to mtB.SetChunk, in call order
    \* ---- the proxy's blob handler and the directory it reads ----
    blobDir,      \* path under blobs/ -> size of the file there, -1 if none
    algDirs,      \* the directories that exist under blobs/
    bresp,        \* the last blob request and the response written for it
    \* ---- the PullResult of the Puller's run ----
    result,       \* the *PullResult Pull is filling in
    downloaded,   \* the local `downloaded` of downloadLayerResumable
    warm,         \* the Pull before this one returned a result
    upstream,     \* how the registry answers a GET with a Range header
    \* ---- one call of the oci.Client ----
    cpc,          \* position in the call: "idle" | "prepare" | "send" | "ret"
    ckind,        \* "manifest" | "blob" | "range": which do*Request runs
    chasAuth,     \* c.auth != nil
    cwithAuth,    \* the withAuth argument of the invocation in hand
    cheader,      \* the Authorization header set on the request in hand
    csent,        \* the Authorization headers of the requests sent so far
    clast,        \* status of the last response, 0 before any
    cret,         \* what the call returned, "none" while it runs
    \* ---- RegistryAuth ----
    tokens,       \* cache keys whose token has not expired
    gaOut,        \* the last GetAuth call: its inputs and what came of it
    \* ---- selectPlatform ----
    platList,     \* list.Manifests: a sequence of <<os, architecture, digest>>
    platOut,      \* what selectPlatform returned for platList
    \* ---- one call of Fetcher.FetchRange ----
    fpc,          \* "idle" | "wait" | "fetch" | "ret"
    fattempt,     \* the loop variable attempt
    fwaits,       \* the delays waited out so far, in units of retryDelay
    fcalls,       \* what each fetchRangeOnce call of this FetchRange returned
    fcancelled,   \* ctx is cancelled
    fret,         \* what FetchRange returned, <<"none">> while it runs
    \* ---- prune.Run over a layout directory ----
    pdir,         \* the entries of the directory
    pdir0,        \* the entries when Run was called
    prpc,         \* "idle" | "partials" | "states" | "done"
    prdry,        \* opts.DryRun
    prtodo,       \* entries of the os.ReadDir in hand not yet visited
    prres,        \* result.Files and the errors handed to opts.OnDelete
    \* ---- store.Open on a root directory ----
    opc,          \* position of Open, "idle" when no Layout is in hand
    ociLayout,    \* the file oci-layout: "absent" | "empty" | "whole"
    indexJson,    \* the file index.json, likewise; `index` is its content
    blobsMade,    \* blobs/sha256 exists
    openErr,      \* the error of the last Open, "none" for nil
    gotIndex      \* what GetIndex on the opened Layout returned

layoutVars == <<blobs, partial, index, stateFile>>
proxyVars  == <<pulling, stateDone, stateErr, deleting, hpc, himg, hrole, hjoin,
                herr, hdigest, hres, conc>>
pullVars   == <<ppc, cfgChunk, layerIdx, tree, todo, chunkData, saveThen, perr,
                loaded, fetched, faults, crashes, runs>>
storeVars  == <<spc, stree, treeFile, chunkFile, storeBlob, parallelism,
                cancelled, sret, aret, missing, si, jobs, fed, jobsClosed,
                results, wkpc, wkjob, firstErr, completed, sfaults, scalls>>
apiVars    == <<laid, torn, indexTorn, amidx, amdesc, added>>
treeVars   == <<mt, mtop, mtB, ordA, ordB>>
blobVars   == <<blobDir, algDirs, bresp>>
resVars    == <<result, downloaded, warm, upstream>>
clientVars == <<cpc, ckind, chasAuth, cwithAuth, cheader, csent, clast, cret>>
authVars   == <<tokens, gaOut>>
platVars   == <<platList, platOut>>
fetchVars  == <<fpc, fattempt, fwaits, fcalls, fcancelled, fret>>
pruneVars  == <<pdir, pdir0, prpc, prdry, prtodo, prres>>
openVars   == <<opc, ociLayout, indexJson, blobsMade, openErr, gotIndex>>
moreVars   == <<blobVars, resVars, clientVars, authVars, platVars, fetchVars,
                pruneVars, openVars>>
\* the variables of the WriteBlob callers, without the groups nested in them
callVars   == <<lmu, wbpc, wbdig, wbstream, wbtmp, wbret, wberr, wbexisted,
                wbcount, firstBytes, orphans, lfaults, lcrashes>>
\* everything but moreVars
baseVars   == <<layoutVars, proxyVars, pullVars, storeVars, callVars, apiVars,
                treeVars>>
\* writerVars without the PullResult
notResVars == <<callVars, apiVars, treeVars, blobVars, clientVars, authVars,
                platVars, fetchVars, pruneVars, openVars>>
writerVars == <<lmu, wbpc, wbdig, wbstream, wbtmp, wbret, wberr, wbexisted,
                wbcount, firstBytes, orphans, lfaults, lcrashes, apiVars,
                treeVars, moreVars>>

(***************************************************************************)
(* Chunk tree (pkg/merkle).  Go indexes chunks from 0; Leaves[i + 1] is    *)
(* the leaf of chunk i.                                                    *)
(***************************************************************************)
\* xxhash.Sum64 of a byte string, as an injective code of the bytes; the
\* 64-bit value 0 has a preimage too, here the one-byte string <<Bad>>
RECURSIVE Enc(_)
Enc(data) == IF data = <<>> THEN 1
             ELSE Enc(SubSeq(data, 1, Len(data) - 1)) * (Bad + 1) + data[Len(data)]

ZeroHashData == <<Bad>>

HashData(data) == IF data = ZeroHashData THEN EmptyHash ELSE Enc(data)

\* Hash.IsEmpty
IsEmpty(h) == h = EmptyHash

\* Hash.String: fmt.Sprintf("%016x"), most significant digit first
RECURSIVE HexDigits(_, _)
HexDigits(v, width) ==
    IF width = 0 THEN <<>>
    ELSE Append(HexDigits(v \div 16, width - 1), v % 16)

HashString(h) == HexDigits(h, HexWidth)

\* the digits read in base 10
RECURSIVE HashFromDec(_)
HashFromDec(s) ==
    IF s = <<>> THEN 0
    ELSE HashFromDec(SubSeq(s, 1, Len(s) - 1)) * 10 + s[Len(s)]

\* HashFromHex: strconv.ParseUint(s, 16, 64)
RECURSIVE HashFromHex(_)
HashFromHex(s) ==
    IF s = <<>> THEN 0
    ELSE HashFromHex(SubSeq(s, 1, Len(s) - 1)) * 16 + s[Len(s)]

RECURSIVE nextPowerOf2From(_, _)
nextPowerOf2From(p, n) == IF p < n THEN nextPowerOf2From(p * 2, n) ELSE p

nextPowerOf2(n) == IF n <= 1 THEN 1 ELSE nextPowerOf2From(1, n)

\* merkle.New
New(totalSize, chunkSize) ==
    LET numChunks == (totalSize + chunkSize - 1) \div chunkSize
    IN  [TotalSize |-> totalSize,
         ChunkSize |-> chunkSize,
         NumChunks |-> numChunks,
         Leaves |-> [k \in 1..nextPowerOf2(numChunks) |-> EmptyHash],
         PresentCount |-> 0]

InRange(t, idx) == idx >= 0 /\ idx < t.NumChunks

\* Tree.SetChunk; out of range is the error return, the tree unchanged
SetChunk(t, idx, data) ==
    IF ~InRange(t, idx) THEN t
    ELSE [t EXCEPT !.Leaves[idx + 1] = HashData(data),
                   !.PresentCount = IF IsEmpty(t.Leaves[idx + 1]) THEN @ + 1 ELSE @]

\* Tree.ClearChunk
ClearChunk(t, idx) ==
    IF ~InRange(t, idx) THEN t
    ELSE IF ~IsEmpty(t.Leaves[idx + 1])
         THEN [t EXCEPT !.Leaves[idx + 1] = EmptyHash, !.PresentCount = @ - 1]
         ELSE t

\* Tree.SetChunkHash; out of range is the error return, the tree unchanged
SetChunkHash(t, idx, h) ==
    IF ~InRange(t, idx) THEN t
    ELSE [t EXCEPT !.Leaves[idx + 1] = h,
                   !.PresentCount = IF IsEmpty(t.Leaves[idx + 1]) /\ ~IsEmpty(h)
                                    THEN @ + 1 ELSE @]

\* hashPair: xxhash.Sum64 of the two hashes side by side, here a mix of the
\* two into 16 bits; like the original it is not one-to-one
hashPair(left, right) == ((left * 37 + right) * 101 + 7) % 65536

\* Tree.Root: the leaves hashed pairwise, level by level
RECURSIVE RootOf(_)
RootOf(level) ==
    IF Len(level) = 1 THEN level[1]
    ELSE RootOf([k \in 1..(Len(level) \div 2) |->
                   hashPair(level[2 * k - 1], level[2 * k])])

Root(t) == IF Len(t.Leaves) = 0 THEN EmptyHash ELSE RootOf(t.Leaves)

\* Tree.HasChunk
HasChunk(t, idx) == InRange(t, idx) /\ ~IsEmpty(t.Leaves[idx + 1])

\* Tree.MissingChunks
MissingChunks(t) ==
    SelectSeq([k \in 1..t.NumChunks |-> k - 1], LAMBDA i : IsEmpty(t.Leaves[i + 1]))

\* Tree.MissingRanges: the scan of the leaves, [start, end) pairs
RECURSIVE MissingRangesFrom(_, _, _, _, _)
MissingRangesFrom(t, i, inRange, start, ranges) ==
    IF i >= t.NumChunks
    THEN IF inRange THEN Append(ranges, <<start, t.NumChunks>>) ELSE ranges
    ELSE LET isMissing == IsEmpty(t.Leaves[i + 1])
         IN  IF isMissing /\ ~inRange
             THEN MissingRangesFrom(t, i + 1, TRUE, i, ranges)
             ELSE IF ~isMissing /\ inRange
                  THEN MissingRangesFrom(t, i + 1, FALSE, start, Append(ranges, <<start, i>>))
                  ELSE MissingRangesFrom(t, i + 1, inRange, start, ranges)

MissingRangesAll(t) == IF t.NumChunks > 0 THEN << <<0, t.NumChunks>> >> ELSE <<>>
\* one range per missing chunk, none coalesced
MissingRangesSingles(t) ==
    [k \in 1..Len(MissingChunks(t)) |->
       <<MissingChunks(t)[k], MissingChunks(t)[k] + 1>>]
MissingRanges(t) == MissingRangesFrom(t, 0, FALSE, 0, <<>>)

\* Tree.Complete
Complete(t) == t.PresentCount >= t.NumChunks

\* Tree.ChunkOffset
ChunkOffset(t, idx) == idx * t.ChunkSize

\* Tree.ChunkLength
ChunkLength(t, idx) ==
    IF ~InRange(t, idx) THEN 0
    ELSE LET remaining == t.TotalSize - ChunkOffset(t, idx)
         IN  IF remaining > t.ChunkSize THEN t.ChunkSize ELSE remaining

\* Tree.Serialize: the State written to the file; a missing leaf is ""
Serialize(t) ==
    [total_size |-> t.TotalSize,
     chunk_size |-> t.ChunkSize,
     num_chunks |-> t.NumChunks,
     present_count |-> t.PresentCount,
     root |-> HashString(Root(t)),
     leaves |-> [k \in 1..t.NumChunks |->
                   IF IsEmpty(t.Leaves[k]) THEN <<>> ELSE HashString(t.Leaves[k])]]

\* merkle.Deserialize: New, then every non-empty leaf parsed and counted
Deserialize(s) ==
    LET t == New(s.total_size, s.chunk_size)
        present == {k \in 1..Len(s.leaves) : s.leaves[k] # <<>>}
    IN  [t EXCEPT !.Leaves = [k \in 1..Len(t.Leaves) |->
                                IF k \in present THEN HashFromHex(s.leaves[k])
                                ELSE EmptyHash],
                  !.PresentCount = Cardinality(present)]

\* chunk indices a serialized State marks present
StatePresent(s) == {k - 1 : k \in {j \in 1..Len(s.leaves) : s.leaves[j] # <<>>}}

\* merkle.LoadFromFile succeeds: the file exists and parses
Loadable(f) == f # NoState /\ f # Truncated

(***************************************************************************)
(* Layout (pkg/store/layout.go): operations as functions of the disk.      *)
(***************************************************************************)
\* Layout.HasBlob: stat of the canonical path
HasBlob(bl, digest) == bl[digest] # NoFile

\* a file opened with O_APPEND: the offset is ignored
WriteAppend(file, offset, data) ==
    (IF file = NoFile THEN <<>> ELSE file) \o data

\* Layout.WriteBlobAt: f.WriteAt(data, offset) on the .partial file, created
\* on first use; a gap before offset reads as zero bytes
WriteAt(file, offset, data) ==
    LET old == IF file = NoFile THEN <<>> ELSE file
        n == IF data = <<>> THEN Len(old) ELSE Max(Len(old), offset + Len(data))
    IN  [k \in 1..n |->
           IF k > offset /\ k <= offset + Len(data) THEN data[k - offset]
           ELSE IF k <= Len(old) THEN old[k] ELSE 0]

\* Layout.AddManifest: upsert by digest, then writeIndex
IndexOfDigest(idx, digest) ==
    IF \E i \in 1..Len(idx) : idx[i].digest = digest
    THEN CHOOSE i \in 1..Len(idx) :
           /\ idx[i].digest = digest
           /\ \A j \in 1..(i - 1) : idx[j].digest # digest
    ELSE 0

AddManifest(idx, desc) ==
    LET i == IndexOfDigest(idx, desc.digest)
    IN  IF i # 0 THEN [idx EXCEPT ![i] = desc] ELSE Append(idx, desc)

(***************************************************************************)
(* Proxy (pkg/proxy): handleManifest, findManifestDigest, pullImage.       *)
(***************************************************************************)
\* Server.findManifestDigest: first descriptor whose ref.name is the image,
\* "" when there is none (the error return)
findManifestDigest(idx, image) ==
    IF \E i \in 1..Len(idx) : idx[i].ref = image
    THEN LET i == CHOOSE k \in 1..Len(idx) :
                    /\ idx[k].ref = image
                    /\ \A j \in 1..(k - 1) : idx[j].ref # image
         IN  idx[i].digest
    ELSE ""

\* the lookup `state, ok := s.pulling[image]` under s.mu
InFlightNever(image) == FALSE
InFlight(image) == pulling[image] # 0

InFlightHandlers == {h \in Handlers : hpc[h] \notin {"idle", "done"}}

\* a request arrives: ServeHTTP routes it to handleManifest (handlers are
\* interchangeable, so they are numbered in order of arrival)
Arrive(h, image) ==
    /\ hpc[h] = "idle"
    /\ \A g \in 1..(h - 1) : hpc[g] # "idle"
    /\ hpc' = [hpc EXCEPT ![h] = "lookup"]
    /\ himg' = [himg EXCEPT ![h] = image]
    /\ conc' = conc \cup {{h, g} : g \in InFlightHandlers}
    /\ UNCHANGED <<pulling, stateDone, stateErr, deleting, hrole, hjoin, herr,
                   hdigest, hres>>
    /\ UNCHANGED <<layoutVars, pullVars, storeVars, writerVars>>

\* handleManifest: the first findManifestDigest
Lookup(h) ==
    /\ hpc[h] = "lookup"
    /\ LET d == findManifestDigest(index, himg[h])
       IN  IF d # ""
           THEN /\ hpc' = [hpc EXCEPT ![h] = "serve"]
                /\ hdigest' = [hdigest EXCEPT ![h] = d]
                /\ hrole' = [hrole EXCEPT ![h] = "hit"]
           ELSE /\ hpc' = [hpc EXCEPT ![h] = "pullImage"]
                /\ UNCHANGED <<hdigest, hrole>>
    /\ UNCHANGED <<pulling, stateDone, stateErr, deleting, himg, hjoin, herr,
                   hres, conc>>
    /\ UNCHANGED <<layoutVars, pullVars, storeVars, writerVars>>

\* pullImage: the critical section under s.mu; a new entry constructs the Puller
PullImageEnter(h) ==
    /\ hpc[h] = "pullImage"
    /\ IF InFlight(himg[h])
       THEN /\ hjoin' = [hjoin EXCEPT ![h] = pulling[himg[h]]]
            /\ hrole' = [hrole EXCEPT ![h] = "waiter"]
            /\ hpc' = [hpc EXCEPT ![h] = "wait"]
            /\ UNCHANGED <<pulling, stateDone, stateErr>>
       ELSE /\ pulling' = [pulling EXCEPT ![himg[h]] = h]
            /\ stateDone' = [stateDone EXCEPT ![h] = FALSE]
            /\ stateErr' = [stateErr EXCEPT ![h] = "nil"]
            /\ hrole' = [hrole EXCEPT ![h] = "initiator"]
            /\ hpc' = [hpc EXCEPT ![h] = "pulling"]
            /\ UNCHANGED hjoin
    /\ UNCHANGED <<deleting, himg, herr, hdigest, hres, conc>>
    /\ UNCHANGED <<layoutVars, pullVars, storeVars, writerVars>>

\* how puller.Pull(ctx, image) ends: nil, an error, the error of the
\* request's cancelled context, or a panic (RegistryAuth.GetAuth reads
\* through a nil challenge); nothing in the proxy recovers
PullOutcomes == {"nil", "Canceled", "panic"} \cup PullErrors

\* puller.Pull(ctx, image) as the proxy sees it: on success the manifest blob
\* is in the layout and AddManifest has registered the image string; a panic
\* unwinds pullImage and handleManifest, and net/http drops the connection
PullRun(h, outcome) ==
    /\ hpc[h] = "pulling"
    /\ IF outcome = "nil"
       THEN LET md == ManifestDigestOf(himg[h])
            IN  /\ blobs' = [blobs EXCEPT ![md] = IF @ = NoFile THEN TrueBytes(md) ELSE @]
                /\ index' = AddManifest(index, Desc(md, himg[h]))
                /\ UNCHANGED <<partial, stateFile>>
       ELSE UNCHANGED layoutVars
    /\ herr' = [herr EXCEPT ![h] = outcome]
    /\ hpc' = [hpc EXCEPT ![h] = IF outcome = "panic" THEN "done" ELSE "pulled"]
    /\ UNCHANGED <<pulling, stateDone, stateErr, deleting, himg, hrole, hjoin,
                   hdigest, hres, conc>>
    /\ UNCHANGED <<pullVars, storeVars, writerVars>>

\* pullImage after Pull returned: state.err = err; close(state.done); go delete
PullFinish(h) ==
    /\ hpc[h] = "pulled"
    /\ stateErr' = [stateErr EXCEPT ![h] = herr[h]]
    /\ stateDone' = [stateDone EXCEPT ![h] = TRUE]
    /\ deleting' = [deleting EXCEPT ![himg[h]] = @ + 1]
    /\ IF herr[h] = "nil"
       THEN /\ hpc' = [hpc EXCEPT ![h] = "lookup2"]
            /\ UNCHANGED hres
       ELSE /\ hpc' = [hpc EXCEPT ![h] = "done"]
            /\ hres' = [hres EXCEPT ![h] = 502]
    /\ UNCHANGED <<pulling, himg, hrole, hjoin, herr, hdigest, conc>>
    /\ UNCHANGED <<layoutVars, pullVars, storeVars, writerVars>>

\* the goroutine spawned by pullImage: delete(s.pulling, image) under s.mu
DeleteEntry(image) ==
    /\ deleting[image] > 0
    /\ deleting' = [deleting EXCEPT ![image] = @ - 1]
    /\ pulling' = [pulling EXCEPT ![image] = 0]
    /\ UNCHANGED <<stateDone, stateErr, hpc, himg, hrole, hjoin, herr, hdigest,
                   hres, conc>>
    /\ UNCHANGED <<layoutVars, pullVars, storeVars, writerVars>>

\* pullImage of a waiter: <-state.done; return state.err
WaitDone(h) ==
    /\ hpc[h] = "wait"
    /\ stateDone[hjoin[h]]
    /\ herr' = [herr EXCEPT ![h] = stateErr[hjoin[h]]]
    /\ IF stateErr[hjoin[h]] = "nil"
       THEN /\ hpc' = [hpc EXCEPT ![h] = "lookup2"]
            /\ UNCHANGED hres
       ELSE /\ hpc' = [hpc EXCEPT ![h] = "done"]
            /\ hres' = [hres EXCEPT ![h] = 502]
    /\ UNCHANGED <<pulling, stateDone, stateErr, deleting, himg, hrole, hjoin,
                   hdigest, conc>>
    /\ UNCHANGED <<layoutVars, pullVars, storeVars, writerVars>>

\* handleManifest: the findManifestDigest after a successful pullImage
Lookup2(h) ==
    /\ hpc[h] = "lookup2"
    /\ LET d == findManifestDigest(index, himg[h])
       IN  IF d # ""
           THEN /\ hpc' = [hpc EXCEPT ![h] = "serve"]
                /\ hdigest' = [hdigest EXCEPT ![h] = d]
                /\ UNCHANGED hres
           ELSE /\ hpc' = [hpc EXCEPT ![h] = "done"]
                /\ hres' = [hres EXCEPT ![h] = 500]
                /\ UNCHANGED hdigest
    /\ UNCHANGED <<pulling, stateDone, stateErr, deleting, himg, hrole, hjoin,
                   herr, conc>>
    /\ UNCHANGED <<layoutVars, pullVars, storeVars, writerVars>>

\* handleManifest: ReadBlob of the digest and the response
Serve(h) ==
    /\ hpc[h] = "serve"
    /\ hres' = [hres EXCEPT ![h] = IF HasBlob(blobs, hdigest[h]) THEN 200 ELSE 500]
    /\ hpc' = [hpc EXCEPT ![h] = "done"]
    /\ UNCHANGED <<pulling, stateDone, stateErr, deleting, himg, hrole, hjoin,
                   herr, hdigest, conc>>
    /\ UNCHANGED <<layoutVars, pullVars, storeVars, writerVars>>

\* a layout just created by Open: no blob, an empty index
InitLayout ==
    /\ blobs = [d \in Digests |-> NoFile]
    /\ partial = [d \in LayerDigests |-> NoFile]
    /\ index = <<>>
    /\ stateFile = [d \in LayerDigests |-> NoState]

InitPull ==
    /\ ppc = "idle"
    /\ cfgChunk = 0
    /\ layerIdx = 0
    /\ tree = NoTree
    /\ todo = <<>>
    /\ chunkData = <<>>
    /\ saveThen = ""
    /\ perr = {}
    /\ loaded = {}
    /\ fetched = {}
    /\ faults = 0
    /\ crashes = 0
    /\ runs = 0

InitProxy ==
    /\ pulling = [i \in Images |-> 0]
    /\ stateDone = [h \in Handlers |-> FALSE]
    /\ stateErr = [h \in Handlers |-> "nil"]
    /\ deleting = [i \in Images |-> 0]
    /\ hpc = [h \in Handlers |-> "idle"]
    /\ himg = [h \in Handlers |-> "r/a:1"]
    /\ hrole = [h \in Handlers |-> "none"]
    /\ hjoin = [h \in Handlers |-> 0]
    /\ herr = [h \in Handlers |-> "none"]
    /\ hdigest = [h \in Handlers |-> ""]
    /\ hres = [h \in Handlers |-> 0]
    /\ conc = {}

\* a Store just created by New over an empty root
InitStore ==
    /\ spc = "idle"
    /\ stree = NoTree
    /\ treeFile = NoState
    /\ chunkFile = [i \in ChunkIds |-> NoFile]
    /\ storeBlob = NoFile
    /\ parallelism = 1
    /\ cancelled = FALSE
    /\ sret = "none"
    /\ aret = "none"
    /\ missing = <<>>
    /\ si = 0
    /\ jobs = <<>>
    /\ fed = 0
    /\ jobsClosed = FALSE
    /\ results = <<>>
    /\ wkpc = [w \in Workers |-> "off"]
    /\ wkjob = [w \in Workers |-> 0]
    /\ firstErr = "none"
    /\ completed = 0
    /\ sfaults = 0
    /\ scalls = 0

\* no WriteBlob call in flight, the mutex free
InitWriters ==
    /\ lmu = 0
    /\ wbpc = [w \in Writers |-> "idle"]
    /\ wbdig = [w \in Writers |-> ConfigDigest]
    /\ wbstream = [w \in Writers |-> <<>>]
    /\ wbtmp = [w \in Writers |-> NoFile]
    /\ wbret = [w \in Writers |-> 0]
    /\ wberr = [w \in Writers |-> "none"]
    /\ wbexisted = [w \in Writers |-> FALSE]
    /\ wbcount = [w \in Writers |-> 0]
    /\ firstBytes = [d \in Digests |-> NoFile]
    /\ orphans = {}
    /\ lfaults = 0
    /\ lcrashes = 0
    /\ laid = [d \in PartialDigests |-> Blank]
    /\ torn = [d \in PartialDigests |-> FALSE]
    /\ indexTorn = FALSE
    /\ amidx = [w \in Writers |-> <<>>]
    /\ amdesc = [w \in Writers |-> NoDesc]
    /\ added = [d \in {x.digest : x \in IndexDescs} |-> NoDesc]
    /\ mt = New(0, 1)
    /\ mtop = "new"
    /\ mtB = New(0, 1)
    /\ ordA = <<>>
    /\ ordB = <<>>
    /\ blobDir = [q \in BlobPaths |-> -1]
    /\ algDirs = {"sha256"}
    /\ bresp = NoBlobResponse
    /\ result = NoResult
    /\ downloaded = 0
    /\ warm = FALSE
    /\ upstream = "ranges"
    /\ cpc = "idle"
    /\ ckind = "manifest"
    /\ chasAuth = FALSE
    /\ cwithAuth = FALSE
    /\ cheader = ""
    /\ csent = <<>>
    /\ clast = 0
    /\ cret = "none"
    /\ tokens = {}
    /\ gaOut = NoAuthCall
    /\ platList = <<>>
    /\ platOut = NoSelection
    /\ fpc = "idle"
    /\ fattempt = 0
    /\ fwaits = <<>>
    /\ fcalls = <<>>
    /\ fcancelled = FALSE
    /\ fret = <<"none">>
    /\ pdir = FreshLayout
    /\ pdir0 = FreshLayout
    /\ prpc = "idle"
    /\ prdry = FALSE
    /\ prtodo = {}
    /\ prres = NoPruneResult
    /\ opc = "idle"
    /\ ociLayout = "absent"
    /\ indexJson = "absent"
    /\ blobsMade = FALSE
    /\ openErr = "none"
    /\ gotIndex = "none"

vars == <<layoutVars, proxyVars, pullVars, storeVars, writerVars>>

NextProxy ==
    \/ \E h \in Handlers, i \in Images : Arrive(h, i)
    \/ \E h \in Handlers : Lookup(h)
    \/ \E h \in Handlers : PullImageEnter(h)
    \/ \E h \in Handlers, o \in PullOutcomes : PullRun(h, o)
    \/ \E h \in Handlers : PullFinish(h)
    \/ \E i \in Images : DeleteEntry(i)
    \/ \E h \in Handlers : WaitDone(h)
    \/ \E h \in Handlers : Lookup2(h)
    \/ \E h \in Handlers : Serve(h)

InitSpecProxy == InitLayout /\ InitProxy /\ InitPull /\ InitStore /\ InitWriters

SpecProxy == InitSpecProxy /\ [][NextProxy]_vars

(***************************************************************************)
(* Puller (pkg/store/pull.go): Pull and downloadLayerResumable, one        *)
(* process; the registry answers as it likes, within the fault budget.     *)
(***************************************************************************)
\* the layer downloadLayerResumable is working on
CurLayer == Layers[layerIdx]

\* the chunk indices of a list of [start, end) ranges, in the order of the
\* two nested loops of downloadLayerResumable
RECURSIVE ChunksOf(_)
ChunksOf(ranges) ==
    IF ranges = <<>> THEN <<>>
    ELSE [k \in 1..(ranges[1][2] - ranges[1][1]) |-> ranges[1][1] + k - 1]
         \o ChunksOf(Tail(ranges))

\* what the registry may answer to GetBlobRange(start, start+length-1):
\* the range (206), the whole blob (200), a cut body, wrong bytes, an error
RangeResponses == {"range", "full", "short", "corrupt", "err"}

\* registries: one that honours Range with 206 and the range, one that
\* ignores it and answers 200 with the whole blob
Upstreams == {"ranges", "fullbody"}
\* the answer such a registry gives when nothing goes wrong
NormalResponse(up) == IF up = "fullbody" THEN "full" ELSE "range"

RangeBody(digest, offset, length, resp) ==
    CASE resp = "range"   -> SubSeq(TrueBytes(digest), offset + 1, offset + length)
      [] resp = "full"    -> TrueBytes(digest)
      [] resp = "short"   -> SubSeq(TrueBytes(digest), offset + 1, offset + length - 1)
      [] resp = "corrupt" -> [k \in 1..length |-> Bad]
      [] OTHER            -> <<>>

\* a fault may be injected while the budget lasts
MayFault == faults < MaxFaults
Spend(fault) == faults' = IF fault THEN faults + 1 ELSE faults

\* a WriteBlob that returns nil and leaves no file at the canonical path
WriteBlobDropped(bl, digest, content) == bl
\* Layout.WriteBlob on the disk: nothing if the digest exists
WriteBlob(bl, digest, content) ==
    IF HasBlob(bl, digest) THEN bl ELSE [bl EXCEPT ![digest] = content]

\* loadOrCreateTree: the state file if it loads, else a new tree
loadOrCreateTree(digest, size) ==
    IF Loadable(stateFile[digest])
    THEN Deserialize(stateFile[digest])
    ELSE New(size, cfgChunk)

\* Pull is invoked (NewPuller with a chunk size, then GetManifest)
PullStart(cs, up, ok) ==
    /\ ppc \in {"idle", "done_ok", "done_err"}
    /\ upstream' = IF runs = 0 THEN up ELSE upstream
    /\ runs < MaxRuns
    /\ runs' = runs + 1
    /\ cfgChunk' = cs
    /\ ok \/ MayFault
    /\ Spend(~ok)
    /\ ppc' = IF ok THEN "manifest" ELSE "done_err"
    /\ perr' = IF ok THEN {} ELSE {"get manifest"}
    /\ layerIdx' = 0
    /\ tree' = NoTree
    /\ todo' = <<>>
    /\ chunkData' = <<>>
    /\ saveThen' = ""
    /\ loaded' = {}
    /\ fetched' = {}
    /\ UNCHANGED <<crashes, layoutVars, proxyVars, storeVars, notResVars>>
    /\ result' = NoResult
    /\ downloaded' = 0
    /\ warm' = (ppc = "done_ok")
    /\ up = upstream \/ runs = 0

\* Pull: WriteBlob of the marshalled manifest under its computed digest
WriteManifest(ok) ==
    /\ ppc = "manifest"
    /\ ok \/ MayFault
    /\ Spend(~ok)
    /\ IF ok
       THEN /\ blobs' = WriteBlob(blobs, ManifestDigestOf(PullImage),
                                  TrueBytes(ManifestDigestOf(PullImage)))
            /\ ppc' = "config"
            /\ UNCHANGED perr
       ELSE /\ ppc' = "done_err"
            /\ perr' = {"write manifest"}
            /\ UNCHANGED blobs
    /\ UNCHANGED <<partial, index, stateFile, proxyVars, storeVars, writerVars, cfgChunk, layerIdx, tree,
                   todo, chunkData, saveThen, loaded, fetched, crashes, runs>>

\* Pull: the config blob, one GET written with WriteBlob unless it is there
DownloadConfig(resp) ==
    /\ ppc = "config"
    /\ resp \in {"range", "corrupt", "err"}
    /\ IF HasBlob(blobs, ConfigDigest)
       THEN /\ resp = "range"
            /\ ppc' = "layer"
            /\ UNCHANGED <<blobs, perr, faults>>
       ELSE /\ resp = "range" \/ MayFault
            /\ Spend(resp # "range")
            /\ IF resp = "err"
               THEN /\ ppc' = "done_err"
                    /\ perr' = {"download config"}
                    /\ UNCHANGED blobs
               ELSE /\ blobs' = WriteBlob(blobs, ConfigDigest,
                                          RangeBody(ConfigDigest, 0, 1, resp))
                    /\ ppc' = "layer"
                    /\ UNCHANGED perr
    /\ layerIdx' = 1
    /\ UNCHANGED <<partial, index, stateFile, proxyVars, storeVars, notResVars, cfgChunk, tree, todo,
                   chunkData, saveThen, loaded, fetched, crashes, runs>>
    /\ result' = IF HasBlob(blobs, ConfigDigest)
                 THEN [result EXCEPT !.Cached = @ + ConfigSize,
                                     !.Layers = Len(Layers)]
                 ELSE IF resp = "err" THEN result
                 ELSE [result EXCEPT !.Downloaded = @ + ConfigSize,
                                     !.Layers = Len(Layers)]
    /\ UNCHANGED <<downloaded, warm, upstream>>

\* Pull: the head of the layer loop; a layer that is in the layout is skipped
LayerCheck ==
    /\ ppc = "layer"
    /\ IF layerIdx > Len(Layers)
       THEN /\ ppc' = "addManifest"
            /\ UNCHANGED layerIdx
       ELSE IF HasBlob(blobs, CurLayer)
            THEN /\ layerIdx' = layerIdx + 1
                 /\ UNCHANGED ppc
            ELSE /\ ppc' = "load"
                 /\ UNCHANGED layerIdx
    /\ UNCHANGED <<layoutVars, proxyVars, storeVars, notResVars, cfgChunk, tree, todo, chunkData,
                   saveThen, perr, loaded, fetched, faults, crashes, runs>>
    /\ result' = IF layerIdx > Len(Layers) THEN result
                 ELSE IF HasBlob(blobs, CurLayer)
                 THEN [result EXCEPT !.TotalSize = @ + LayerSizeOf(CurLayer),
                                     !.Cached = @ + LayerSizeOf(CurLayer)]
                 ELSE [result EXCEPT !.TotalSize = @ + LayerSizeOf(CurLayer)]
    /\ UNCHANGED <<downloaded, warm, upstream>>

\* downloadLayerResumable: loadOrCreateTree, then the complete tree goes to
\* FinalizeBlob and the other one to the loop over tree.MissingRanges()
LoadTree ==
    /\ ppc = "load"
    /\ LET t == loadOrCreateTree(CurLayer, LayerSizeOf(CurLayer))
       IN  /\ tree' = t
           /\ loaded' = {i \in 0..(t.NumChunks - 1) : HasChunk(t, i)}
           /\ IF Complete(t)
              THEN /\ todo' = <<>>
                   /\ ppc' = "finalize"
              ELSE /\ todo' = ChunksOf(MissingRanges(t))
                   /\ ppc' = "chunk"
    /\ fetched' = {}
    /\ UNCHANGED <<layoutVars, proxyVars, storeVars, notResVars, cfgChunk, layerIdx, chunkData, saveThen,
                   perr, faults, crashes, runs>>
    /\ downloaded' = 0
    /\ UNCHANGED <<result, warm, upstream>>

\* downloadLayerResumable: downloadChunk of the next missing chunk; an error
\* goes to saveTree and the error return
FetchChunk(resp) ==
    /\ ppc = "chunk"
    /\ upstream = "fullbody" => resp # "range"
    /\ resp = NormalResponse(upstream) \/ MayFault
    /\ Spend(resp # NormalResponse(upstream))
    /\ LET idx == Head(todo)
           offset == ChunkOffset(tree, idx)
           length == ChunkLength(tree, idx)
       IN  /\ fetched' = fetched \cup {idx}
           /\ IF resp = "err"
              THEN /\ ppc' = "save"
                   /\ saveThen' = "fail"
                   /\ perr' = {"chunk"}
                   /\ UNCHANGED chunkData
              ELSE /\ chunkData' = RangeBody(CurLayer, offset, length, resp)
                   /\ ppc' = "write"
                   /\ UNCHANGED <<saveThen, perr>>
    /\ UNCHANGED <<layoutVars, proxyVars, storeVars, writerVars, cfgChunk, layerIdx, tree, todo, loaded,
                   crashes, runs>>

\* after a chunk: the next one, or the check after the loop
AfterChunk(rest) == IF rest = <<>> THEN "finalize" ELSE "chunk"

\* downloadLayerResumable: WriteBlobAt, SetChunk, and the saveTree of every
\* chunk index that is a multiple of 10
WriteChunk(ok) ==
    /\ ppc = "write"
    /\ ok \/ MayFault
    /\ Spend(~ok)
    /\ LET idx == Head(todo)
       IN  IF ok
           THEN /\ partial' = [partial EXCEPT
                                 ![CurLayer] = WriteAt(@, ChunkOffset(tree, idx), chunkData)]
                /\ tree' = SetChunk(tree, idx, chunkData)
                /\ todo' = Tail(todo)
                /\ IF idx % SaveEvery = 0
                   THEN /\ ppc' = "save"
                        /\ saveThen' = "next"
                   ELSE /\ ppc' = AfterChunk(Tail(todo))
                        /\ UNCHANGED saveThen
                /\ UNCHANGED perr
           ELSE /\ ppc' = "save"
                /\ saveThen' = "fail"
                /\ perr' = {"write chunk"}
                /\ UNCHANGED <<partial, tree, todo>>
    /\ UNCHANGED <<blobs, index, stateFile, proxyVars, storeVars, notResVars, cfgChunk, layerIdx,
                   chunkData, loaded, fetched, crashes, runs>>
    /\ downloaded' = IF ok THEN downloaded + Len(chunkData) ELSE downloaded
    /\ UNCHANGED <<result, warm, upstream>>

\* Tree.SaveToFile, first half: os.WriteFile opens the state file itself
\* with O_TRUNC
SaveOpen(ok) ==
    /\ ppc = "save"
    /\ ok \/ MayFault
    /\ Spend(~ok)
    /\ IF ok
       THEN /\ stateFile' = [stateFile EXCEPT ![CurLayer] = Truncated]
            /\ ppc' = "saving"
            /\ UNCHANGED perr
       ELSE /\ ppc' = "done_err"
            /\ perr' = perr \cup {"save state"}
            /\ UNCHANGED stateFile
    /\ UNCHANGED <<blobs, partial, index, proxyVars, storeVars, writerVars, cfgChunk, layerIdx, tree,
                   todo, chunkData, saveThen, loaded, fetched, crashes, runs>>

\* Tree.SaveToFile, second half: the marshalled State is written
SaveWrite ==
    /\ ppc = "saving"
    /\ stateFile' = [stateFile EXCEPT ![CurLayer] = Serialize(tree)]
    /\ ppc' = IF saveThen = "next" THEN AfterChunk(todo) ELSE "done_err"
    /\ UNCHANGED <<blobs, partial, index, proxyVars, storeVars, writerVars, cfgChunk, layerIdx, tree,
                   todo, chunkData, saveThen, perr, loaded, fetched, faults,
                   crashes, runs>>

\* Layout.FinalizeBlob: os.Rename(partialPath, finalPath), the blobs after it
RenamedLost(bl, pt, digest) == bl
Renamed(bl, pt, digest) == [bl EXCEPT ![digest] = pt[digest]]

\* Layout.FinalizeBlob decided on the disk: "nopartial" | "exists" | "rename"
FinalizeCase(digest) ==
    IF partial[digest] = NoFile THEN "nopartial"
    ELSE IF HasBlob(blobs, digest) THEN "exists"
    ELSE "rename"

\* downloadLayerResumable: the Complete check and FinalizeBlob; neither error
\* return saves the tree
FinalizeLayer(ok) ==
    /\ ppc = "finalize"
    /\ ok \/ (MayFault /\ Complete(tree) /\ FinalizeCase(CurLayer) = "rename")
    /\ Spend(~ok)
    /\ IF ~Complete(tree)
       THEN /\ ppc' = "done_err"
            /\ perr' = {"incomplete"}
            /\ UNCHANGED <<blobs, partial>>
       ELSE CASE FinalizeCase(CurLayer) = "nopartial" ->
                   /\ ppc' = "done_err"
                   /\ perr' = {"finalize"}
                   /\ UNCHANGED <<blobs, partial>>
              [] FinalizeCase(CurLayer) = "exists" ->
                   /\ partial' = [partial EXCEPT ![CurLayer] = NoFile]
                   /\ ppc' = "rmstate"
                   /\ UNCHANGED <<blobs, perr>>
              [] OTHER ->
                   IF ok
                   THEN /\ blobs' = Renamed(blobs, partial, CurLayer)
                        /\ partial' = [partial EXCEPT ![CurLayer] = NoFile]
                        /\ ppc' = "rmstate"
                        /\ UNCHANGED perr
                   ELSE /\ ppc' = "done_err"
                        /\ perr' = {"finalize"}
                        /\ UNCHANGED <<blobs, partial>>
    /\ UNCHANGED <<index, stateFile, proxyVars, storeVars, writerVars, cfgChunk, layerIdx, tree, todo,
                   chunkData, saveThen, loaded, fetched, crashes, runs>>

\* downloadLayerResumable: os.Remove(statePath) and the return to Pull's loop
RemoveState ==
    /\ ppc = "rmstate"
    /\ stateFile' = [stateFile EXCEPT ![CurLayer] = NoState]
    /\ layerIdx' = layerIdx + 1
    /\ ppc' = "layer"
    /\ UNCHANGED <<blobs, partial, index, proxyVars, storeVars, notResVars, cfgChunk, tree, todo,
                   chunkData, saveThen, perr, loaded, fetched, faults, crashes, runs>>
    /\ result' = [result EXCEPT !.Downloaded = @ + downloaded]
    /\ UNCHANGED <<downloaded, warm, upstream>>

\* Pull: AddManifest of the descriptor annotated with the image string
RegisterManifest(ok) ==
    /\ ppc = "addManifest"
    /\ ok \/ MayFault
    /\ Spend(~ok)
    /\ IF ok
       THEN /\ index' = AddManifest(index, Desc(ManifestDigestOf(PullImage), PullImage))
            /\ ppc' = "done_ok"
            /\ UNCHANGED perr
       ELSE /\ ppc' = "done_err"
            /\ perr' = {"add to index"}
            /\ UNCHANGED index
    /\ UNCHANGED <<blobs, partial, stateFile, proxyVars, storeVars, writerVars, cfgChunk, layerIdx, tree,
                   todo, chunkData, saveThen, loaded, fetched, crashes, runs>>

\* the process dies: memory is lost, the disk stays as it is
Crash ==
    /\ ppc \notin {"idle", "done_ok", "done_err"}
    /\ crashes < MaxCrashes
    /\ crashes' = crashes + 1
    /\ ppc' = "idle"
    /\ cfgChunk' = 0
    /\ layerIdx' = 0
    /\ tree' = NoTree
    /\ todo' = <<>>
    /\ chunkData' = <<>>
    /\ saveThen' = ""
    /\ perr' = {}
    /\ loaded' = {}
    /\ fetched' = {}
    /\ UNCHANGED <<layoutVars, proxyVars, storeVars, notResVars, faults, runs>>
    /\ result' = NoResult
    /\ downloaded' = 0
    /\ warm' = FALSE
    /\ UNCHANGED upstream

NextPull ==
    \/ \E cs \in ChunkSizes, up \in Upstreams, ok \in BOOLEAN : PullStart(cs, up, ok)
    \/ \E ok \in BOOLEAN : WriteManifest(ok)
    \/ \E resp \in RangeResponses : DownloadConfig(resp)
    \/ LayerCheck
    \/ LoadTree
    \/ \E resp \in RangeResponses : FetchChunk(resp)
    \/ \E ok \in BOOLEAN : WriteChunk(ok)
    \/ \E ok \in BOOLEAN : SaveOpen(ok)
    \/ SaveWrite
    \/ \E ok \in BOOLEAN : FinalizeLayer(ok)
    \/ RemoveState
    \/ \E ok \in BOOLEAN : RegisterManifest(ok)
    \/ Crash

InitSpecPull == InitLayout /\ InitProxy /\ InitPull /\ InitStore /\ InitWriters

SpecPull == InitSpecPull /\ [][NextPull]_vars

(***************************************************************************)
(* Store (pkg/store/store.go): one layer downloaded into chunk files by    *)
(* FetchMissing, sequentially or by worker goroutines, under a context     *)
(* that may be cancelled, then assembled by AssembleBlob.                  *)
(***************************************************************************)
\* what Fetcher.FetchRange may return: the range, the whole body of a 200,
\* wrong bytes of the right length, an error after the retries, the context's
\* error
FetchOutcomes == {"range", "full", "corrupt", "err", "canceled"}

\* the error of a FetchRange outcome, "none" for nil
FetchErr(resp) == IF resp \in {"err", "canceled"} THEN resp ELSE "none"

\* an outcome is possible: the context's error needs a cancelled context,
\* any other departure from the range is a fault
MayFetch(resp) ==
    CASE resp = "range"    -> TRUE
      [] resp = "canceled" -> cancelled
      [] OTHER             -> sfaults < MaxFaults

FetchFault(resp) == resp \notin {"range", "canceled"}

\* a result sent on the results channel
Result(chunkIndex, bytes, err) ==
    [chunkIndex |-> chunkIndex, data |-> bytes, err |-> err]

\* Store.SaveState: Tree.SaveToFile on tree.json; a failed write leaves the
\* file cut short
SaveState(t, ok) == IF ok THEN Serialize(t) ELSE Truncated

\* store.New with its options, then Store.GetOrCreateLayer: tree.json if it
\* loads, else a new tree of the Store's chunk size
GetOrCreateLayer(cs, par) ==
    /\ spc \in {"idle", "returned"}
    /\ scalls < MaxRuns
    /\ scalls' = scalls + 1
    /\ stree' = IF Loadable(treeFile)
                THEN Deserialize(treeFile)
                ELSE New(LayerSizeOf(StoreLayer), cs)
    /\ parallelism' = par
    /\ cancelled' = FALSE
    /\ sret' = "none"
    /\ spc' = "ready"
    /\ UNCHANGED <<treeFile, chunkFile, storeBlob, aret, missing, si, jobs, fed,
                   jobsClosed, results, wkpc, wkjob, firstErr, completed, sfaults>>
    /\ UNCHANGED <<layoutVars, proxyVars, pullVars, writerVars>>

\* Store.FetchMissing up to the start of the loop or of the goroutines
FetchMissing ==
    /\ spc = "ready"
    /\ missing' = MissingChunks(stree)
    /\ si' = 0
    /\ jobs' = <<>>
    /\ fed' = 0
    /\ jobsClosed' = FALSE
    /\ results' = <<>>
    /\ firstErr' = "none"
    /\ completed' = 0
    /\ IF missing' = <<>>
       THEN /\ spc' = "returned"
            /\ sret' = "nil"
            /\ UNCHANGED wkpc
       ELSE IF parallelism = 1
            THEN /\ spc' = "seq"
                 /\ UNCHANGED <<sret, wkpc>>
            ELSE /\ spc' = "par"
                 /\ wkpc' = [w \in Workers |->
                               IF w <= parallelism THEN "range" ELSE "off"]
                 /\ UNCHANGED sret
    /\ UNCHANGED <<stree, treeFile, chunkFile, storeBlob, parallelism, cancelled,
                   aret, wkjob, sfaults, scalls>>
    /\ UNCHANGED <<layoutVars, proxyVars, pullVars, writerVars>>

\* the caller cancels the context of the running FetchMissing
CancelCtx ==
    /\ spc \in {"seq", "seqfetch", "par"}
    /\ ~cancelled
    /\ cancelled' = TRUE
    /\ UNCHANGED <<spc, stree, treeFile, chunkFile, storeBlob, parallelism, sret,
                   aret, missing, si, jobs, fed, jobsClosed, results, wkpc, wkjob,
                   firstErr, completed, sfaults, scalls>>
    /\ UNCHANGED <<layoutVars, proxyVars, pullVars, writerVars>>

\* fetchMissingSeq: the select at the head of an iteration
SeqSelect ==
    /\ spc = "seq"
    /\ si < Len(missing)
    /\ IF cancelled
       THEN /\ spc' = "returned"
            /\ sret' = "canceled"
       ELSE /\ spc' = "seqfetch"
            /\ UNCHANGED sret
    /\ UNCHANGED <<stree, treeFile, chunkFile, storeBlob, parallelism, cancelled,
                   aret, missing, si, jobs, fed, jobsClosed, results, wkpc, wkjob,
                   firstErr, completed, sfaults, scalls>>
    /\ UNCHANGED <<layoutVars, proxyVars, pullVars, writerVars>>

\* fetchMissingSeq: Store.FetchChunk of missing[i] and what follows it; an
\* error saves the state and returns; ok is the success of the step's first
\* file write
SeqFetchChunk(resp, ok) ==
    /\ spc = "seqfetch"
    /\ MayFetch(resp)
    /\ ok \/ sfaults + (IF FetchFault(resp) THEN 1 ELSE 0) < MaxFaults
    /\ sfaults' = sfaults + (IF FetchFault(resp) THEN 1 ELSE 0)
                          + (IF ok THEN 0 ELSE 1)
    /\ LET chunkIndex == missing[si + 1]
           start == ChunkOffset(stree, chunkIndex)
           length == ChunkLength(stree, chunkIndex)
           bytes == RangeBody(StoreLayer, start, length, resp)
           err == IF FetchErr(resp) # "none" THEN FetchErr(resp)
                  ELSE IF Len(bytes) # length THEN "length"
                  ELSE IF ~ok THEN "write"
                  ELSE "none"
       IN  IF err # "none"
           THEN /\ treeFile' = IF err = "write" THEN Serialize(stree)
                               ELSE SaveState(stree, ok)
                /\ sret' = err
                /\ spc' = "returned"
                /\ UNCHANGED <<stree, chunkFile, si>>
           ELSE /\ chunkFile' = [chunkFile EXCEPT ![chunkIndex] = bytes]
                /\ stree' = SetChunk(stree, chunkIndex, bytes)
                /\ si' = si + 1
                /\ treeFile' = IF (si + 1) % SaveEvery = 0
                               THEN Serialize(stree') ELSE treeFile
                /\ spc' = "seq"
                /\ UNCHANGED sret
    /\ UNCHANGED <<storeBlob, parallelism, cancelled, aret, missing, jobs, fed,
                   jobsClosed, results, wkpc, wkjob, firstErr, completed, scalls>>
    /\ UNCHANGED <<layoutVars, proxyVars, pullVars, writerVars>>

\* fetchMissingSeq after the loop: return s.SaveState(layer)
SeqFinish(ok) ==
    /\ spc = "seq"
    /\ si >= Len(missing)
    /\ ok \/ sfaults < MaxFaults
    /\ sfaults' = sfaults + (IF ok THEN 0 ELSE 1)
    /\ treeFile' = SaveState(stree, ok)
    /\ sret' = IF ok THEN "nil" ELSE "save"
    /\ spc' = "returned"
    /\ UNCHANGED <<stree, chunkFile, storeBlob, parallelism, cancelled, aret,
                   missing, si, jobs, fed, jobsClosed, results, wkpc, wkjob,
                   firstErr, completed, scalls>>
    /\ UNCHANGED <<layoutVars, proxyVars, pullVars, writerVars>>

\* FetchMissing, the feeding goroutine: jobs <- job{i, chunkIndex}
Feed ==
    /\ spc = "par"
    /\ fed < Len(missing)
    /\ jobs' = Append(jobs, missing[fed + 1])
    /\ fed' = fed + 1
    /\ UNCHANGED <<spc, stree, treeFile, chunkFile, storeBlob, parallelism,
                   cancelled, sret, aret, missing, si, jobsClosed, results, wkpc,
                   wkjob, firstErr, completed, sfaults, scalls>>
    /\ UNCHANGED <<layoutVars, proxyVars, pullVars, writerVars>>

\* FetchMissing, the feeding goroutine: close(jobs)
CloseJobs ==
    /\ spc = "par"
    /\ fed = Len(missing)
    /\ ~jobsClosed
    /\ jobsClosed' = TRUE
    /\ UNCHANGED <<spc, stree, treeFile, chunkFile, storeBlob, parallelism,
                   cancelled, sret, aret, missing, si, jobs, fed, results, wkpc,
                   wkjob, firstErr, completed, sfaults, scalls>>
    /\ UNCHANGED <<layoutVars, proxyVars, pullVars, writerVars>>

\* a worker receives a job and runs the select: on a cancelled context it
\* sends one error result and returns (workers blocked on the channel are
\* interchangeable: the lowest-numbered one receives)
WorkerTake(w) ==
    /\ spc = "par"
    /\ wkpc[w] = "range"
    /\ \A v \in 1..(w - 1) : wkpc[v] # "range"
    /\ jobs # <<>>
    /\ jobs' = Tail(jobs)
    /\ IF cancelled
       THEN /\ results' = Append(results, Result(Head(jobs), <<>>, "canceled"))
            /\ wkpc' = [wkpc EXCEPT ![w] = "exited"]
            /\ UNCHANGED wkjob
       ELSE /\ wkpc' = [wkpc EXCEPT ![w] = "fetch"]
            /\ wkjob' = [wkjob EXCEPT ![w] = Head(jobs)]
            /\ UNCHANGED results
    /\ UNCHANGED <<spc, stree, treeFile, chunkFile, storeBlob, parallelism,
                   cancelled, sret, aret, missing, si, fed, jobsClosed, firstErr,
                   completed, sfaults, scalls>>
    /\ UNCHANGED <<layoutVars, proxyVars, pullVars, writerVars>>

\* a worker's FetchRange returns and the result is sent
WorkerFetch(w, resp) ==
    /\ spc = "par"
    /\ wkpc[w] = "fetch"
    /\ MayFetch(resp)
    /\ sfaults' = sfaults + (IF FetchFault(resp) THEN 1 ELSE 0)
    /\ LET start == ChunkOffset(stree, wkjob[w])
           length == ChunkLength(stree, wkjob[w])
           bytes == RangeBody(StoreLayer, start, length, resp)
       IN  results' = Append(results, Result(wkjob[w], bytes, FetchErr(resp)))
    /\ wkpc' = [wkpc EXCEPT ![w] = "range"]
    /\ wkjob' = [wkjob EXCEPT ![w] = 0]
    /\ UNCHANGED <<spc, stree, treeFile, chunkFile, storeBlob, parallelism,
                   cancelled, sret, aret, missing, si, jobs, fed, jobsClosed,
                   firstErr, completed, scalls>>
    /\ UNCHANGED <<layoutVars, proxyVars, pullVars, writerVars>>

\* a worker's range over the closed, drained jobs channel ends
WorkerExit(w) ==
    /\ spc = "par"
    /\ wkpc[w] = "range"
    /\ \A v \in 1..(w - 1) : wkpc[v] # "range"
    /\ jobs = <<>>
    /\ jobsClosed
    /\ wkpc' = [wkpc EXCEPT ![w] = "exited"]
    /\ UNCHANGED <<spc, stree, treeFile, chunkFile, storeBlob, parallelism,
                   cancelled, sret, aret, missing, si, jobs, fed, jobsClosed,
                   results, wkjob, firstErr, completed, sfaults, scalls>>
    /\ UNCHANGED <<layoutVars, proxyVars, pullVars, writerVars>>

\* a coordinator that lets a later error replace the one it holds
KeepLast(first, err) == err

\* `if ... firstErr == nil { firstErr = ... }`
KeepFirst(first, err) == IF first = "none" THEN err ELSE first

\* the coordinator's loop body: one result received and handled
Collect(ok) ==
    /\ spc = "par"
    /\ si < Len(missing)
    /\ results # <<>>
    /\ ok \/ (sfaults < MaxFaults /\ Head(results).err = "none")
    /\ sfaults' = sfaults + (IF ok THEN 0 ELSE 1)
    /\ results' = Tail(results)
    /\ si' = si + 1
    /\ LET r == Head(results)
       IN  IF r.err # "none"
           THEN /\ firstErr' = KeepFirst(firstErr, r.err)
                /\ UNCHANGED <<stree, treeFile, chunkFile, completed>>
           ELSE IF ~ok
           THEN /\ firstErr' = KeepFirst(firstErr, "write")
                /\ UNCHANGED <<stree, treeFile, chunkFile, completed>>
           ELSE /\ chunkFile' = [chunkFile EXCEPT ![r.chunkIndex] = r.data]
                /\ stree' = SetChunk(stree, r.chunkIndex, r.data)
                /\ completed' = completed + 1
                /\ treeFile' = IF completed' % SaveEvery = 0
                               THEN Serialize(stree') ELSE treeFile
                /\ UNCHANGED firstErr
    /\ UNCHANGED <<spc, storeBlob, parallelism, cancelled, sret, aret, missing,
                   jobs, fed, jobsClosed, wkpc, wkjob, scalls>>
    /\ UNCHANGED <<layoutVars, proxyVars, pullVars, writerVars>>

\* FetchMissing after the loop: wg.Wait(), SaveState with its error dropped,
\* return firstErr
ParFinish(ok) ==
    /\ spc = "par"
    /\ si = Len(missing)
    /\ \A w \in Workers : wkpc[w] \in {"off", "exited"}
    /\ ok \/ sfaults < MaxFaults
    /\ sfaults' = sfaults + (IF ok THEN 0 ELSE 1)
    /\ treeFile' = SaveState(stree, ok)
    /\ sret' = IF firstErr = "none" THEN "nil" ELSE firstErr
    /\ spc' = "returned"
    /\ UNCHANGED <<stree, chunkFile, storeBlob, parallelism, cancelled, aret,
                   missing, si, jobs, fed, jobsClosed, results, wkpc, wkjob,
                   firstErr, completed, scalls>>
    /\ UNCHANGED <<layoutVars, proxyVars, pullVars, writerVars>>

\* the chunk files 0..n-1 written one after the other into the blob, up to
\* the first one that cannot be read
RECURSIVE Assembled(_, _)
Assembled(i, n) ==
    IF i >= n \/ chunkFile[i] = NoFile THEN <<>>
    ELSE chunkFile[i] \o Assembled(i + 1, n)

\* Store.AssembleBlob: "incomplete", a chunk that cannot be read, a digest
\* mismatch (the blob removed), or the blob path
AssembleBlob ==
    /\ spc = "returned"
    /\ IF ~Complete(stree)
       THEN /\ aret' = "incomplete"
            /\ UNCHANGED storeBlob
       ELSE IF \E i \in 0..(stree.NumChunks - 1) : chunkFile[i] = NoFile
       THEN /\ aret' = "read chunk"
            /\ storeBlob' = Assembled(0, stree.NumChunks)
       ELSE IF Assembled(0, stree.NumChunks) # TrueBytes(StoreLayer)
       THEN /\ aret' = "digest mismatch"
            /\ storeBlob' = NoFile
       ELSE /\ aret' = "ok"
            /\ storeBlob' = Assembled(0, stree.NumChunks)
    /\ UNCHANGED <<spc, stree, treeFile, chunkFile, parallelism, cancelled, sret,
                   missing, si, jobs, fed, jobsClosed, results, wkpc, wkjob,
                   firstErr, completed, sfaults, scalls>>
    /\ UNCHANGED <<layoutVars, proxyVars, pullVars, writerVars>>

NextStore ==
    \/ \E cs \in StoreChunkSizes, par \in Workers : GetOrCreateLayer(cs, par)
    \/ FetchMissing
    \/ CancelCtx
    \/ SeqSelect
    \/ \E resp \in FetchOutcomes, ok \in BOOLEAN : SeqFetchChunk(resp, ok)
    \/ \E ok \in BOOLEAN : SeqFinish(ok)
    \/ Feed
    \/ CloseJobs
    \/ \E w \in Workers : WorkerTake(w)
    \/ \E w \in Workers, resp \in FetchOutcomes : WorkerFetch(w, resp)
    \/ \E w \in Workers : WorkerExit(w)
    \/ \E ok \in BOOLEAN : Collect(ok)
    \/ \E ok \in BOOLEAN : ParFinish(ok)
    \/ AssembleBlob

InitSpecStore == InitLayout /\ InitProxy /\ InitPull /\ InitStore /\ InitWriters

SpecStore == InitSpecStore /\ [][NextStore]_vars

(***************************************************************************)
(* Layout.WriteBlob (pkg/store/layout.go) called by concurrent goroutines  *)
(* of one process, step by step, with failures and a process crash.        *)
(***************************************************************************)
\* WriteBlob: os.Stat(path) of the canonical path succeeds
BlobExistsNever(bl, digest) == FALSE
BlobExists(bl, digest) == bl[digest] # NoFile

\* WriteBlob: os.CreateTemp(dir, ".blob-*") makes a new file beside the
\* canonical path: the canonical paths after it
TempAtCanonical(bl, digest) == [bl EXCEPT ![digest] = <<>>]
TempCreated(bl, digest) == bl

\* the canonical blobs of the layout
CanonicalBlobs == {d \in Digests : blobs[d] # NoFile}

\* WriteBlob: l.mu.Lock() of a call with a digest and a reader
WriteBlobLock(w, digest, stream) ==
    /\ wbpc[w] = "idle"
    /\ lmu = 0
    /\ lmu' = w
    /\ wbpc' = [wbpc EXCEPT ![w] = "stat"]
    /\ wbdig' = [wbdig EXCEPT ![w] = digest]
    /\ wbstream' = [wbstream EXCEPT ![w] = stream]
    /\ wbret' = [wbret EXCEPT ![w] = 0]
    /\ wberr' = [wberr EXCEPT ![w] = "none"]
    /\ wbexisted' = [wbexisted EXCEPT ![w] = blobs[digest] # NoFile]
    /\ wbcount' = [wbcount EXCEPT ![w] = Cardinality(CanonicalBlobs)]
    /\ UNCHANGED <<wbtmp, firstBytes, orphans, lfaults, lcrashes>>
    /\ UNCHANGED <<layoutVars, proxyVars, pullVars, storeVars, apiVars, treeVars, moreVars>>

\* WriteBlob: the stat of the canonical path, then os.CreateTemp beside it
WriteBlobStat(w, ok) ==
    /\ wbpc[w] = "stat"
    /\ ok \/ (lfaults < MaxFaults /\ ~BlobExists(blobs, wbdig[w]))
    /\ lfaults' = lfaults + (IF ok THEN 0 ELSE 1)
    /\ IF BlobExists(blobs, wbdig[w])
       THEN /\ wbpc' = [wbpc EXCEPT ![w] = "ret"]
            /\ UNCHANGED <<wbtmp, wberr>>
       ELSE IF ok
       THEN /\ wbtmp' = [wbtmp EXCEPT ![w] = <<>>]
            /\ wbpc' = [wbpc EXCEPT ![w] = "copy"]
            /\ UNCHANGED wberr
       ELSE /\ wberr' = [wberr EXCEPT ![w] = "create temp"]
            /\ wbpc' = [wbpc EXCEPT ![w] = "ret"]
            /\ UNCHANGED wbtmp
    /\ blobs' = IF ~BlobExists(blobs, wbdig[w]) /\ ok
                THEN TempCreated(blobs, wbdig[w]) ELSE blobs
    /\ UNCHANGED <<lmu, wbdig, wbstream, wbret, wbexisted, wbcount, firstBytes,
                   orphans, lcrashes>>
    /\ UNCHANGED <<partial, index, stateFile, proxyVars, pullVars, storeVars, apiVars, treeVars, moreVars>>

\* WriteBlob: io.Copy(tmp, r); on an error the deferred function removes the
\* temp file
WriteBlobCopy(w, ok) ==
    /\ wbpc[w] = "copy"
    /\ ok \/ lfaults < MaxFaults
    /\ lfaults' = lfaults + (IF ok THEN 0 ELSE 1)
    /\ IF ok
       THEN /\ wbtmp' = [wbtmp EXCEPT ![w] = wbstream[w]]
            /\ wbret' = [wbret EXCEPT ![w] = Len(wbstream[w])]
            /\ wbpc' = [wbpc EXCEPT ![w] = "rename"]
            /\ UNCHANGED wberr
       ELSE /\ wbtmp' = [wbtmp EXCEPT ![w] = NoFile]
            /\ wberr' = [wberr EXCEPT ![w] = "write blob"]
            /\ wbpc' = [wbpc EXCEPT ![w] = "ret"]
            /\ UNCHANGED wbret
    /\ UNCHANGED <<lmu, wbdig, wbstream, wbexisted, wbcount, firstBytes, orphans,
                   lcrashes>>
    /\ UNCHANGED <<layoutVars, proxyVars, pullVars, storeVars, apiVars, treeVars, moreVars>>

\* WriteBlob: tmp.Close() and os.Rename(tmpPath, path); on an error 0 is
\* returned and the temp file removed
WriteBlobRename(w, ok) ==
    /\ wbpc[w] = "rename"
    /\ ok \/ lfaults < MaxFaults
    /\ lfaults' = lfaults + (IF ok THEN 0 ELSE 1)
    /\ IF ok
       THEN /\ blobs' = [blobs EXCEPT ![wbdig[w]] = wbtmp[w]]
            /\ firstBytes' = [firstBytes EXCEPT ![wbdig[w]] =
                                IF blobs[wbdig[w]] = NoFile THEN wbtmp[w] ELSE @]
            /\ UNCHANGED <<wbret, wberr>>
       ELSE /\ wbret' = [wbret EXCEPT ![w] = 0]
            /\ wberr' = [wberr EXCEPT ![w] = "rename blob"]
            /\ UNCHANGED <<blobs, firstBytes>>
    /\ wbtmp' = [wbtmp EXCEPT ![w] = NoFile]
    /\ wbpc' = [wbpc EXCEPT ![w] = "ret"]
    /\ UNCHANGED <<lmu, wbdig, wbstream, wbexisted, wbcount, orphans, lcrashes>>
    /\ UNCHANGED <<partial, index, stateFile, proxyVars, pullVars, storeVars, apiVars, treeVars, moreVars>>

\* WriteBlob returns: the deferred l.mu.Unlock(); the call's values are gone
WriteBlobUnlock(w) ==
    /\ wbpc[w] = "ret"
    /\ lmu' = 0
    /\ wbpc' = [wbpc EXCEPT ![w] = "idle"]
    /\ wbdig' = [wbdig EXCEPT ![w] = ConfigDigest]
    /\ wbstream' = [wbstream EXCEPT ![w] = <<>>]
    /\ wbret' = [wbret EXCEPT ![w] = 0]
    /\ wberr' = [wberr EXCEPT ![w] = "none"]
    /\ wbexisted' = [wbexisted EXCEPT ![w] = FALSE]
    /\ wbcount' = [wbcount EXCEPT ![w] = 0]
    /\ UNCHANGED <<wbtmp, firstBytes, orphans, lfaults, lcrashes>>
    /\ UNCHANGED <<layoutVars, proxyVars, pullVars, storeVars, apiVars, treeVars, moreVars>>

\* the process dies and starts again: the calls are gone, the mutex is new,
\* temp files stay where they are
WritersCrash ==
    /\ lcrashes < MaxCrashes
    /\ \E w \in Writers : wbpc[w] # "idle"
    /\ lcrashes' = lcrashes + 1
    /\ lmu' = 0
    /\ wbpc' = [w \in Writers |-> "idle"]
    /\ orphans' = orphans \cup {wbtmp[w] : w \in {v \in Writers : wbtmp[v] # NoFile}}
    /\ wbtmp' = [w \in Writers |-> NoFile]
    /\ wbdig' = [w \in Writers |-> ConfigDigest]
    /\ wbstream' = [w \in Writers |-> <<>>]
    /\ wbret' = [w \in Writers |-> 0]
    /\ wberr' = [w \in Writers |-> "none"]
    /\ wbexisted' = [w \in Writers |-> FALSE]
    /\ wbcount' = [w \in Writers |-> 0]
    /\ amidx' = [w \in Writers |-> <<>>]
    /\ amdesc' = [w \in Writers |-> NoDesc]
    /\ UNCHANGED <<firstBytes, lfaults, laid, torn, indexTorn, added>>
    /\ UNCHANGED <<layoutVars, proxyVars, pullVars, storeVars, treeVars, moreVars>>

NextLayout ==
    \/ \E w \in Writers, d \in WriteDigests, s \in Streams : WriteBlobLock(w, d, s)
    \/ \E w \in Writers, ok \in BOOLEAN : WriteBlobStat(w, ok)
    \/ \E w \in Writers, ok \in BOOLEAN : WriteBlobCopy(w, ok)
    \/ \E w \in Writers, ok \in BOOLEAN : WriteBlobRename(w, ok)
    \/ \E w \in Writers : WriteBlobUnlock(w)
    \/ WritersCrash

InitSpecLayout == InitLayout /\ InitProxy /\ InitPull /\ InitStore /\ InitWriters

SpecLayout == InitSpecLayout /\ [][NextLayout]_vars

(***************************************************************************)
(* Layout.WriteBlobAt and Layout.FinalizeBlob (pkg/store/layout.go) called *)
(* by concurrent goroutines.  Each runs under l.mu from its first line to  *)
(* its return, so a call is one step to its return value and one step for  *)
(* the deferred Unlock.                                                    *)
(***************************************************************************)

\* what f.WriteAt may do: write all of data, fail at OpenFile, or fail after
\* writing a prefix of data
AtOutcomes == {"ok", "open", "short"}

\* the ghost of a successful WriteAt: data laid over l from offset on
Overlay(l, offset, data) ==
    [k \in 1..LayerSize |->
       IF k > offset /\ k <= offset + Len(data) THEN data[k - offset] ELSE l[k]]

\* the file that the writes recorded in l describe: as long as the last
\* byte written, zero where nothing was written
LaidOut(l) ==
    LET n == Max(0, IF \E k \in 1..LayerSize : l[k] # -1
                    THEN CHOOSE k \in 1..LayerSize :
                           /\ l[k] # -1
                           /\ \A j \in (k + 1)..LayerSize : l[j] = -1
                    ELSE 0)
    IN  [k \in 1..n |-> IF l[k] = -1 THEN 0 ELSE l[k]]

\* layout.go:188-205
WriteBlobAtCall(w, digest, offset, data, outcome) ==
    /\ wbpc[w] = "idle"
    /\ lmu = 0
    /\ outcome # "ok" => lfaults < MaxFaults
    /\ outcome = "short" => Len(data) > 1
    /\ lmu' = w
    /\ wbpc' = [wbpc EXCEPT ![w] = "atret"]
    /\ wbdig' = [wbdig EXCEPT ![w] = digest]
    /\ lfaults' = IF outcome = "ok" THEN lfaults ELSE lfaults + 1
    /\ wberr' = [wberr EXCEPT ![w] =
                   CASE outcome = "ok" -> "none"
                     [] outcome = "open" -> "open partial"
                     [] OTHER -> "write at"]
    /\ partial' = [partial EXCEPT ![digest] =
                   CASE outcome = "ok" -> WriteAt(partial[digest], offset, data)
                     [] outcome = "open" -> partial[digest]
                     [] OTHER -> WriteAt(partial[digest], offset,
                                         SubSeq(data, 1, Len(data) - 1))]
    /\ laid' = [laid EXCEPT ![digest] =
                   LET base == IF partial[digest] = NoFile THEN Blank ELSE laid[digest]
                   IN  IF outcome = "ok" THEN Overlay(base, offset, data) ELSE base]
    /\ torn' = [torn EXCEPT ![digest] =
                   CASE outcome = "short" -> TRUE
                     [] partial[digest] = NoFile -> FALSE
                     [] OTHER -> torn[digest]]
    /\ UNCHANGED <<wbstream, wbtmp, wbret, wbexisted, wbcount, firstBytes,
                   orphans, lcrashes, indexTorn, amidx, amdesc, added>>
    /\ UNCHANGED <<blobs, index, stateFile, proxyVars, pullVars, storeVars, treeVars, moreVars>>

\* layout.go:230-251; ok = FALSE is os.Rename failing, or os.Remove failing
\* with its error dropped on line 242
FinalizeBlobCall(w, digest, ok) ==
    LET case == FinalizeCase(digest) IN
    /\ wbpc[w] = "idle"
    /\ lmu = 0
    /\ ~ok => case # "nopartial" /\ lfaults < MaxFaults
    /\ lmu' = w
    /\ wbpc' = [wbpc EXCEPT ![w] = "finret"]
    /\ wbdig' = [wbdig EXCEPT ![w] = digest]
    /\ wbexisted' = [wbexisted EXCEPT ![w] = HasBlob(blobs, digest)]
    /\ lfaults' = IF ok THEN lfaults ELSE lfaults + 1
    /\ wberr' = [wberr EXCEPT ![w] =
                   CASE case = "nopartial" -> "partial not found"
                     [] case = "exists" -> "none"
                     [] OTHER -> IF ok THEN "none" ELSE "finalize"]
    /\ blobs' = IF case = "rename" /\ ok THEN Renamed(blobs, partial, digest)
                ELSE blobs
    /\ partial' = IF case # "nopartial" /\ ok
                  THEN [partial EXCEPT ![digest] = NoFile]
                  ELSE partial
    /\ UNCHANGED <<wbstream, wbtmp, wbret, wbcount, firstBytes, orphans,
                   lcrashes, apiVars>>
    /\ UNCHANGED <<index, stateFile, proxyVars, pullVars, storeVars, treeVars, moreVars>>

\* the deferred l.mu.Unlock() of WriteBlobAt, FinalizeBlob and AddManifest,
\* the deferred l.mu.RUnlock() of GetIndex
ApiUnlock(w) ==
    /\ wbpc[w] \in {"atret", "finret", "amret", "giret"}
    /\ lmu' = 0
    /\ wbpc' = [wbpc EXCEPT ![w] = "idle"]
    /\ wbdig' = [wbdig EXCEPT ![w] = ConfigDigest]
    /\ wberr' = [wberr EXCEPT ![w] = "none"]
    /\ wbexisted' = [wbexisted EXCEPT ![w] = FALSE]
    /\ amidx' = [amidx EXCEPT ![w] = <<>>]
    /\ amdesc' = [amdesc EXCEPT ![w] = NoDesc]
    /\ UNCHANGED <<wbstream, wbtmp, wbret, wbcount, firstBytes, orphans,
                   lfaults, lcrashes, laid, torn, indexTorn, added>>
    /\ UNCHANGED <<layoutVars, proxyVars, pullVars, storeVars, treeVars, moreVars>>

NextPartial ==
    \/ \E w \in Writers, d \in PartialDigests, o \in AtOffsets, b \in AtData,
          r \in AtOutcomes : WriteBlobAtCall(w, d, o, b, r)
    \/ \E w \in Writers, d \in PartialDigests, ok \in BOOLEAN :
          FinalizeBlobCall(w, d, ok)
    \/ \E w \in Writers : ApiUnlock(w)
    \/ WritersCrash

InitSpecPartial == InitLayout /\ InitProxy /\ InitPull /\ InitStore /\ InitWriters

SpecPartial == InitSpecPartial /\ [][NextPartial]_vars

(***************************************************************************)
(* Layout.AddManifest and Layout.GetIndex (pkg/store/layout.go) called by  *)
(* concurrent goroutines: l.mu.Lock, readIndex, the upsert in memory, then *)
(* writeIndex, whose os.WriteFile opens index.json with O_TRUNC and then   *)
(* writes the new bytes into it.                                           *)
(***************************************************************************)

\* l.mu.Lock() goes on when no one holds the mutex
TryLockAlways(m) == TRUE
TryLock(m) == m = 0

\* layout.go:254-256
AddManifestLock(w, desc) ==
    /\ wbpc[w] = "idle"
    /\ TryLock(lmu)
    /\ lmu' = w
    /\ wbpc' = [wbpc EXCEPT ![w] = "amread"]
    /\ amdesc' = [amdesc EXCEPT ![w] = desc]
    /\ UNCHANGED <<wbdig, wbstream, wbtmp, wbret, wberr, wbexisted, wbcount,
                   firstBytes, orphans, lfaults, lcrashes, laid, torn,
                   indexTorn, amidx, added>>
    /\ UNCHANGED <<layoutVars, proxyVars, pullVars, storeVars, treeVars, moreVars>>

\* layout.go:258-261 with readIndex 281-293: a file cut short does not parse
AddManifestRead(w, ok) ==
    /\ wbpc[w] = "amread"
    /\ ~ok => lfaults < MaxFaults
    /\ lfaults' = IF ok THEN lfaults ELSE lfaults + 1
    /\ IF ok /\ ~indexTorn
       THEN /\ amidx' = [amidx EXCEPT ![w] = index]
            /\ wbpc' = [wbpc EXCEPT ![w] = "amopen"]
            /\ UNCHANGED wberr
       ELSE /\ wberr' = [wberr EXCEPT ![w] =
                           IF ok THEN "parse index" ELSE "read index"]
            /\ wbpc' = [wbpc EXCEPT ![w] = "amret"]
            /\ UNCHANGED amidx
    /\ UNCHANGED <<lmu, wbdig, wbstream, wbtmp, wbret, wbexisted, wbcount,
                   firstBytes, orphans, lcrashes, laid, torn, indexTorn,
                   amdesc, added>>
    /\ UNCHANGED <<layoutVars, proxyVars, pullVars, storeVars, treeVars, moreVars>>

\* layout.go:300, first half of os.WriteFile: OpenFile(O_WRONLY|O_CREATE|
\* O_TRUNC) empties index.json
AddManifestOpen(w, ok) ==
    /\ wbpc[w] = "amopen"
    /\ ~ok => lfaults < MaxFaults
    /\ lfaults' = IF ok THEN lfaults ELSE lfaults + 1
    /\ IF ok
       THEN /\ index' = <<>>
            /\ indexTorn' = TRUE
            /\ wbpc' = [wbpc EXCEPT ![w] = "amwrite"]
            /\ UNCHANGED wberr
       ELSE /\ wberr' = [wberr EXCEPT ![w] = "write index"]
            /\ wbpc' = [wbpc EXCEPT ![w] = "amret"]
            /\ UNCHANGED <<index, indexTorn>>
    /\ UNCHANGED <<lmu, wbdig, wbstream, wbtmp, wbret, wbexisted, wbcount,
                   firstBytes, orphans, lcrashes, laid, torn, amidx, amdesc,
                   added>>
    /\ UNCHANGED <<blobs, partial, stateFile, proxyVars, pullVars, storeVars, treeVars, moreVars>>

\* layout.go:300, second half of os.WriteFile: f.Write(data) of the index
\* upserted in memory (263-271), then Close
AddManifestWrite(w, ok) ==
    /\ wbpc[w] = "amwrite"
    /\ ~ok => lfaults < MaxFaults
    /\ lfaults' = IF ok THEN lfaults ELSE lfaults + 1
    /\ wbpc' = [wbpc EXCEPT ![w] = "amret"]
    /\ IF ok
       THEN /\ index' = AddManifest(amidx[w], amdesc[w])
            /\ indexTorn' = FALSE
            /\ added' = [added EXCEPT ![amdesc[w].digest] = amdesc[w]]
            /\ UNCHANGED wberr
       ELSE /\ wberr' = [wberr EXCEPT ![w] = "write index"]
            /\ UNCHANGED <<index, indexTorn, added>>
    /\ UNCHANGED <<lmu, wbdig, wbstream, wbtmp, wbret, wbexisted, wbcount,
                   firstBytes, orphans, lcrashes, laid, torn, amidx, amdesc>>
    /\ UNCHANGED <<blobs, partial, stateFile, proxyVars, pullVars, storeVars, treeVars, moreVars>>

\* layout.go:275-279: GetIndex under the read lock, held out of writers
GetIndexCall(w) ==
    /\ wbpc[w] = "idle"
    /\ lmu = 0
    /\ lmu' = w
    /\ wbpc' = [wbpc EXCEPT ![w] = "giret"]
    /\ amidx' = [amidx EXCEPT ![w] = IF indexTorn THEN <<>> ELSE index]
    /\ wberr' = [wberr EXCEPT ![w] = IF indexTorn THEN "parse index" ELSE "none"]
    /\ UNCHANGED <<wbdig, wbstream, wbtmp, wbret, wbexisted, wbcount,
                   firstBytes, orphans, lfaults, lcrashes, laid, torn,
                   indexTorn, amdesc, added>>
    /\ UNCHANGED <<layoutVars, proxyVars, pullVars, storeVars, treeVars, moreVars>>

NextIndex ==
    \/ \E w \in Writers, d \in IndexDescs : AddManifestLock(w, d)
    \/ \E w \in Writers, ok \in BOOLEAN : AddManifestRead(w, ok)
    \/ \E w \in Writers, ok \in BOOLEAN : AddManifestOpen(w, ok)
    \/ \E w \in Writers, ok \in BOOLEAN : AddManifestWrite(w, ok)
    \/ \E w \in Writers : GetIndexCall(w)
    \/ \E w \in Writers : ApiUnlock(w)
    \/ WritersCrash

InitSpecIndex == InitLayout /\ InitProxy /\ InitPull /\ InitStore /\ InitWriters

SpecIndex == InitSpecIndex /\ [][NextIndex]_vars

(***************************************************************************)
(* Server.handleBlob (unnamed/part_009) over the blobs/ directory of the   *)
(* Layout the server was given.                                            *)
(***************************************************************************)

BlobFrame == UNCHANGED <<baseVars, resVars, clientVars, authVars, platVars,
                         fetchVars, pruneVars, openVars>>

\* store.Open on a directory that already holds an oci-layout file: the
\* blobs in it are taken as they are
OpenExisting(files) ==
    /\ blobDir' = files
    /\ algDirs' = {"sha256"} \cup {q[1] : q \in {r \in BlobPaths : files[r] # -1}}
    /\ bresp' = NoBlobResponse
    /\ BlobFrame

\* a WriteBlob of digest that went through: CreateTemp needs the directory
StoreBlob(digest, n) ==
    /\ blobDir[blobPath(digest)] = -1
    /\ blobPath(digest)[1] \in algDirs
    /\ blobDir' = [blobDir EXCEPT ![blobPath(digest)] = n]
    /\ UNCHANGED <<algDirs, bresp>>
    /\ BlobFrame

\* part_009:178-212; fault is os.Stat or os.Open failing on a file that is
\* there
handleBlobResponse(dir, digest, method, fault) ==
    LET req == [NoBlobResponse EXCEPT !.digest = digest, !.method = method,
                                      !.fault = fault]
        size == dir[handlerPath(digest)]
        ok == [req EXCEPT !.status = 200, !.contentDigest = digest,
                          !.contentLength = size]
    IN  IF dir[blobPath(digest)] = -1 THEN [req EXCEPT !.status = 404]
        ELSE IF size = -1 \/ fault = "stat" THEN [req EXCEPT !.status = 500]
        ELSE IF method = "HEAD" THEN ok
        ELSE IF fault = "open" THEN [req EXCEPT !.status = 500]
        ELSE [ok EXCEPT !.body = TRUE]

handleBlob(digest, method, fault) ==
    /\ bresp' = handleBlobResponse(blobDir, digest, method, fault)
    /\ UNCHANGED <<blobDir, algDirs>>
    /\ BlobFrame

NextBlob ==
    \/ \E f \in ExistingLayouts : OpenExisting(f)
    \/ \E d \in BlobDigestArgs, n \in BlobLens : StoreBlob(d, n)
    \/ \E d \in BlobDigestArgs, m \in BlobMethods, f \in {"none", "stat", "open"} :
          handleBlob(d, m, f)

InitSpecBlob == InitLayout /\ InitProxy /\ InitPull /\ InitStore /\ InitWriters

SpecBlob == InitSpecBlob /\ [][NextBlob]_vars

(***************************************************************************)
(* One call of Client.doManifestRequest, doBlobRequest or doRangeCheck     *)
(* (unnamed/part_011): the request is built, GetAuth is asked when         *)
(* withAuth is set, the request is sent, and a 401 to an anonymous request *)
(* re-enters the function with withAuth = true.                            *)
(***************************************************************************)

ClientFrame == UNCHANGED <<baseVars, blobVars, resVars, authVars, platVars,
                           fetchVars, pruneVars, openVars>>

\* fetchManifest, GetBlob, GetBlobRange (a blob request with a Range header)
\* and SupportsRange
ClientKinds == {"manifest", "blob", "blobrange", "range"}
\* statuses a registry answers with; 0 is httpClient.Do returning an error
ClientStatuses == {0, 200, 206, 401, 404, 500}
\* what c.auth.GetAuth returns: a header, "" with nil, an error naming
\* DENIED, any other error
AuthOutcomes == {"header", "empty", "denied", "error"}

\* fetchManifest, GetBlob, GetBlobRange, SupportsRange: withAuth = false
ClientCall(kind, hasAuth) ==
    /\ cpc \in {"idle", "ret"}
    /\ cpc' = "prepare"
    /\ ckind' = kind
    /\ chasAuth' = hasAuth
    /\ cwithAuth' = FALSE
    /\ cheader' = ""
    /\ csent' = <<>>
    /\ clast' = 0
    /\ cret' = "none"
    /\ ClientFrame

\* `if withAuth && c.auth != nil { ... }` (part_011:147-155, 201-209, 248-256)
ClientPrepare(auth) ==
    /\ cpc = "prepare"
    /\ IF cwithAuth /\ chasAuth
       THEN IF auth = "error"
            THEN /\ cret' = "get auth"
                 /\ cpc' = "ret"
                 /\ UNCHANGED cheader
            ELSE /\ cheader' = IF auth = "header" THEN "Bearer t" ELSE ""
                 /\ cpc' = "send"
                 /\ UNCHANGED cret
       ELSE /\ auth = "empty"
            /\ cheader' = ""
            /\ cpc' = "send"
            /\ UNCHANGED cret
    /\ UNCHANGED <<ckind, chasAuth, cwithAuth, csent, clast>>
    /\ ClientFrame

\* what each function returns for a status it does not retry on
ManifestReturn(status) ==
    CASE status = 401 -> "Unauthorized"
      [] status = 404 -> "NotFound"
      [] status # 200 -> "status"
      [] OTHER -> "ok"
BlobReturn(status) ==
    CASE status = 401 -> "Unauthorized"
      [] status \notin {200, 206} -> "status"
      [] OTHER -> "ok"
RangeCheckReturn(status) == IF status = 206 THEN "true" ELSE "false"

\* httpClient.Do and what follows it
ClientSend(status) ==
    /\ cpc = "send"
    /\ csent' = Append(csent, cheader)
    /\ clast' = status
    /\ IF status = 0
       THEN /\ cret' = "transport"
            /\ cpc' = "ret"
            /\ UNCHANGED cwithAuth
       ELSE IF status = 401 /\ ~cwithAuth /\ chasAuth
            THEN /\ cwithAuth' = TRUE
                 /\ cpc' = "prepare"
                 /\ UNCHANGED cret
            ELSE /\ cret' = CASE ckind = "manifest" -> ManifestReturn(status)
                               [] ckind \in {"blob", "blobrange"} -> BlobReturn(status)
                               [] OTHER -> RangeCheckReturn(status)
                 /\ cpc' = "ret"
                 /\ UNCHANGED cwithAuth
    /\ UNCHANGED <<ckind, chasAuth, cheader>>
    /\ ClientFrame

NextClient ==
    \/ \E k \in ClientKinds, a \in BOOLEAN : ClientCall(k, a)
    \/ \E a \in AuthOutcomes : ClientPrepare(a)
    \/ \E st \in ClientStatuses : ClientSend(st)

InitSpecClient == InitLayout /\ InitProxy /\ InitPull /\ InitStore /\ InitWriters

SpecClient == InitSpecClient /\ [][NextClient]_vars

(***************************************************************************)
(* The public operations of merkle.Tree (unnamed/part_013) applied by a    *)
(* caller to one tree, in any order and with any arguments.                *)
(***************************************************************************)

\* PresentCount has no upper limit in the code; the caller stops adding once
\* it has passed NumChunks
BelowCap(t) == t.PresentCount <= t.NumChunks

\* indices a caller passes: every chunk, one below and one above
IndexArgs(t) == (-1)..t.NumChunks

TreeFrame ==
    /\ UNCHANGED <<lmu, wbpc, wbdig, wbstream, wbtmp, wbret, wberr, wbexisted,
                   wbcount, firstBytes, orphans, lfaults, lcrashes, apiVars,
                   moreVars>>
    /\ UNCHANGED <<layoutVars, proxyVars, pullVars, storeVars>>

TreeNew(totalSize, chunkSize) ==
    /\ mt' = New(totalSize, chunkSize)
    /\ mtop' = "new"
    /\ UNCHANGED <<mtB, ordA, ordB>>
    /\ TreeFrame

TreeSetChunk(idx, bytes) ==
    /\ idx \in IndexArgs(mt)
    /\ BelowCap(mt)
    /\ mt' = SetChunk(mt, idx, bytes)
    /\ mtop' = "set"
    /\ UNCHANGED <<mtB, ordA, ordB>>
    /\ TreeFrame

TreeSetChunkHash(idx, h) ==
    /\ idx \in IndexArgs(mt)
    /\ BelowCap(mt)
    /\ mt' = SetChunkHash(mt, idx, h)
    /\ mtop' = "sethash"
    /\ UNCHANGED <<mtB, ordA, ordB>>
    /\ TreeFrame

TreeClearChunk(idx) ==
    /\ idx \in IndexArgs(mt)
    /\ mt' = ClearChunk(mt, idx)
    /\ mtop' = "clear"
    /\ UNCHANGED <<mtB, ordA, ordB>>
    /\ TreeFrame

\* Serialize, then Deserialize of what it returned
TreeRoundTrip ==
    /\ mt' = Deserialize(Serialize(mt))
    /\ mtop' = "roundtrip"
    /\ UNCHANGED <<mtB, ordA, ordB>>
    /\ TreeFrame

NextTree ==
    \/ \E ts \in TreeSizes, cs \in TreeChunkSizes : TreeNew(ts, cs)
    \/ \E i \in (-1)..LayerSize, b \in TreeData : TreeSetChunk(i, b)
    \/ \E i \in (-1)..LayerSize, h \in TreeHashes : TreeSetChunkHash(i, h)
    \/ \E i \in (-1)..LayerSize : TreeClearChunk(i)
    \/ TreeRoundTrip

InitSpecTree == InitLayout /\ InitProxy /\ InitPull /\ InitStore /\ InitWriters

SpecTree == InitSpecTree /\ [][NextTree]_vars

(***************************************************************************)
(* Two trees over the same blob and chunk size; each gets SetChunk(i, the  *)
(* bytes of chunk i) in an order of its own, repetitions included.         *)
(***************************************************************************)

\* b[ChunkOffset(i) : ChunkOffset(i) + ChunkLength(i)]
ChunkBytes(t, idx) ==
    SubSeq(OrderBlob, ChunkOffset(t, idx) + 1,
           ChunkOffset(t, idx) + ChunkLength(t, idx))

OrderStart(chunkSize) ==
    /\ mt' = New(Len(OrderBlob), chunkSize)
    /\ mtB' = New(Len(OrderBlob), chunkSize)
    /\ mtop' = "new"
    /\ ordA' = <<>>
    /\ ordB' = <<>>
    /\ TreeFrame

OrderSetA(idx) ==
    /\ InRange(mt, idx)
    /\ Len(ordA) < MaxApply
    /\ mt' = SetChunk(mt, idx, ChunkBytes(mt, idx))
    /\ ordA' = Append(ordA, idx)
    /\ mtop' = "set"
    /\ UNCHANGED <<mtB, ordB>>
    /\ TreeFrame

OrderSetB(idx) ==
    /\ InRange(mtB, idx)
    /\ Len(ordB) < MaxApply
    /\ mtB' = SetChunk(mtB, idx, ChunkBytes(mtB, idx))
    /\ ordB' = Append(ordB, idx)
    /\ UNCHANGED <<mt, mtop, ordA>>
    /\ TreeFrame

NextOrder ==
    \/ \E cs \in TreeChunkSizes : OrderStart(cs)
    \/ \E i \in 0..(Len(OrderBlob) - 1) : OrderSetA(i)
    \/ \E i \in 0..(Len(OrderBlob) - 1) : OrderSetB(i)

InitSpecOrder == InitLayout /\ InitProxy /\ InitPull /\ InitStore /\ InitWriters

SpecOrder == InitSpecOrder /\ [][NextOrder]_vars

(***************************************************************************)
(* Claims about the proxy.                                                 *)
(***************************************************************************)
\* the request missed the index and went to pullImage
Missed(h) == hrole[h] \in {"initiator", "waiter"}

\* C1: of two concurrent manifest requests for the same image that both
\* missed the index, at most one constructs and runs a Puller, and once both
\* have returned from pullImage they hold the same result.
C1_OnePullerSameResult ==
    \A h1 \in Handlers, h2 \in Handlers :
        ( /\ h1 # h2
          /\ {h1, h2} \in conc
          /\ himg[h1] = himg[h2]
          /\ Missed(h1) /\ Missed(h2) )
        => /\ ~(hrole[h1] = "initiator" /\ hrole[h2] = "initiator")
           /\ (herr[h1] # "none" /\ herr[h2] # "none") => herr[h1] = herr[h2]

\* a handler whose Puller.Pull has been started and whose result is not yet
\* published to the pullState
PullRunning(h) == hpc[h] \in {"pulling", "pulled"}

\* C2: in every reachable state at most one Puller.Pull runs per image string.
C2_AtMostOnePullPerImage ==
    \A i \in Images :
        Cardinality({h \in Handlers : PullRunning(h) /\ himg[h] = i}) <= 1

\* a second request for the image arrives at pullImage while the pull runs,
\* and waits on the entry
C2_Witness ==
    \E h1 \in Handlers, h2 \in Handlers :
        /\ hpc[h1] = "pulling"
        /\ hpc[h2] = "wait"
        /\ himg[h1] = himg[h2]
        /\ hjoin[h2] = h1

(***************************************************************************)
(* Claims about the puller.                                                *)
(***************************************************************************)
\* C3: a resumed layer download range-fetches no chunk that the tree loaded
\* from the state file marks present, and when it returns without error the
\* layer's canonical blob exists.
C3_ResumeFetchesOnlyMissing ==
    /\ fetched \cap loaded = {}
    /\ ppc = "rmstate" => HasBlob(blobs, CurLayer)

\* a second invocation loaded a state with chunks present, under the same
\* chunk size, fetched the rest and finalized the layer
C3_Witness ==
    /\ runs >= 2
    /\ ppc = "rmstate"
    /\ loaded # {}
    /\ fetched # {}
    /\ tree.ChunkSize = cfgChunk
    /\ tree.TotalSize = LayerSizeOf(CurLayer)

\* C4: every canonical layer blob holds the bytes its digest names (the
\* assembled bytes were verified against the layer digest before the rename).
C4_CanonicalLayerVerified ==
    \A d \in LayerDigests : HasBlob(blobs, d) => blobs[d] = TrueBytes(d)

\* C5: a tree that carries chunks of a persisted state is in use only if the
\* state's total_size and chunk_size equal the layer's size and the
\* configured chunk size.
C5_StateUsedOnlyIfSizesMatch ==
    (tree # NoTree /\ loaded # {})
    => /\ tree.ChunkSize = cfgChunk
       /\ tree.TotalSize = LayerSizeOf(CurLayer)

\* errors of downloadLayerResumable itself
LayerErrors == {"chunk", "write chunk", "set chunk", "incomplete", "finalize"}

\* C6: when the layer download has returned an error (and the save itself
\* did not fail), the state file records every chunk set in the tree.
C6_FlushedBeforeErrorReturn ==
    (ppc = "done_err" /\ perr \cap LayerErrors # {} /\ "save state" \notin perr)
    => /\ Loadable(stateFile[CurLayer])
       /\ \A i \in 0..(tree.NumChunks - 1) :
            HasChunk(tree, i) => i \in StatePresent(stateFile[CurLayer])

\* C8: whenever the process starts (also after a crash in the middle of a
\* save), no state file is a cut-short write.
C8_StateFileNeverTorn ==
    ppc = "idle" => \A d \in LayerDigests : stateFile[d] # Truncated

\* C9: after Pull returned success the layout has the config blob and every
\* layer blob, and the index has a descriptor whose ref.name is the image.
C9_PullPostcondition ==
    ppc = "done_ok"
    => /\ HasBlob(blobs, ConfigDigest)
       /\ \A k \in 1..Len(Layers) : HasBlob(blobs, Layers[k])
       /\ \E k \in 1..Len(index) :
            /\ index[k].ref = PullImage
            /\ index[k].digest = ManifestDigestOf(PullImage)

\* a Pull that downloaded a layer chunk by chunk has returned success
C9_Witness ==
    /\ ppc = "done_ok"
    /\ fetched # {}
    /\ perr = {}

(***************************************************************************)
(* Claims about the Store and about Layout.WriteBlob.                      *)
(***************************************************************************)
\* C7: when FetchMissing has returned the context's cancellation error (no
\* I/O fault injected), every chunk set in the tree is recorded in tree.json.
C7_CancelFlushesState ==
    (spc = "returned" /\ sret = "canceled" /\ sfaults = 0)
    => \A i \in 0..(stree.NumChunks - 1) :
         HasChunk(stree, i)
         => /\ Loadable(treeFile)
            /\ i \in StatePresent(treeFile)

\* C10: when a WriteBlob call is about to return, success means the canonical
\* blob exists; a call that found the blob when it took the mutex returns
\* (0, nil) with the count of canonical blobs as it found it; and a canonical
\* blob always holds the bytes it first held.
C10_WriteBlobDedup ==
    /\ \A w \in Writers :
         (wbpc[w] = "ret" /\ wberr[w] = "none") => blobs[wbdig[w]] # NoFile
    /\ \A w \in Writers :
         (wbpc[w] = "ret" /\ wbexisted[w])
         => /\ wbret[w] = 0
            /\ wberr[w] = "none"
            /\ Cardinality(CanonicalBlobs) = wbcount[w]
    /\ \A d \in Digests : blobs[d] # NoFile => blobs[d] = firstBytes[d]

\* a later WriteBlob of a stored digest, with a stream that differs from the
\* stored bytes, is about to return
C10_Witness ==
    \E w \in Writers :
        /\ wbpc[w] = "ret"
        /\ wbexisted[w]
        /\ wbstream[w] # blobs[wbdig[w]]

\* C11: the canonical path of a digest written by WriteBlob is absent or
\* holds the complete bytes of one stream, at every step of a write, after a
\* failed stream and after a crash; and a WriteBlob about to return an error
\* for a digest that had no blob leaves it without one.
C11_WriteBlobAtomic ==
    /\ \A d \in WriteDigests : blobs[d] # NoFile => blobs[d] \in Streams
    /\ \A w \in Writers :
         (wbpc[w] = "ret" /\ wberr[w] # "none" /\ ~wbexisted[w])
         => blobs[wbdig[w]] = NoFile

\* after a crash in the middle of a write left a temp file behind, one
\* digest is stored and a write of another digest fails in io.Copy
C11_Witness ==
    /\ orphans # {}
    /\ \E d \in WriteDigests : blobs[d] # NoFile
    /\ \E w \in Writers : wbpc[w] = "ret" /\ wberr[w] = "write blob"

\* C12: when FinalizeBlob returns nil for a digest that had no canonical blob
\* when it was called, and no WriteBlobAt on the .partial file failed midway,
\* the canonical blob holds exactly the bytes the WriteBlobAt calls laid out
\* (zero where none wrote) and the .partial file is gone.
C12_FinalizeYieldsWrites ==
    \A w \in Writers :
      (/\ wbpc[w] = "finret"
       /\ wberr[w] = "none"
       /\ ~wbexisted[w]
       /\ ~torn[wbdig[w]])
      => /\ HasBlob(blobs, wbdig[w])
         /\ blobs[wbdig[w]] = LaidOut(laid[wbdig[w]])
         /\ partial[wbdig[w]] = NoFile
C12_Witness ==
    \E w \in Writers :
      /\ wbpc[w] = "finret"
      /\ wberr[w] = "none"
      /\ ~wbexisted[w]
      /\ ~torn[wbdig[w]]
      /\ blobs[wbdig[w]] = <<2, 3, 1>>
\* C12 as stated, whatever the canonical path held before the call
C12_AsStated ==
    \A w \in Writers :
      (/\ wbpc[w] = "finret"
       /\ wberr[w] = "none"
       /\ ~torn[wbdig[w]])
      => /\ HasBlob(blobs, wbdig[w])
         /\ blobs[wbdig[w]] = LaidOut(laid[wbdig[w]])
         /\ partial[wbdig[w]] = NoFile

\* C13: a FinalizeBlob called while the canonical blob exists returns nil,
\* leaves the canonical bytes as they were and leaves no .partial file.
C13_FinalizeIdempotent ==
    [][\A w \in Writers :
         (/\ wbpc[w] = "idle"
          /\ wbpc'[w] = "finret"
          /\ HasBlob(blobs, wbdig'[w]))
         => /\ wberr'[w] = "none"
            /\ blobs' = blobs
            /\ partial'[wbdig'[w]] = NoFile]_vars

\* C14: while index.json is readable it holds at most one descriptor per
\* digest and, for every digest, the last descriptor an AddManifest wrote for
\* it; an AddManifest that returns nil for a digest already present has
\* replaced that entry where it stood and left every other entry and the
\* length alone, and for a new digest has appended exactly one entry.
C14_AddManifestUpsert ==
    /\ ~indexTorn =>
         /\ \A i, j \in 1..Len(index) :
              index[i].digest = index[j].digest => i = j
         /\ \A d \in DOMAIN added :
              added[d] # NoDesc =>
                /\ IndexOfDigest(index, d) # 0
                /\ index[IndexOfDigest(index, d)] = added[d]
    /\ \A w \in Writers :
         (wbpc[w] = "amret" /\ wberr[w] = "none") =>
           LET i == IndexOfDigest(amidx[w], amdesc[w].digest) IN
           IF i # 0
           THEN /\ Len(index) = Len(amidx[w])
                /\ index[i] = amdesc[w]
                /\ \A j \in 1..Len(index) : j # i => index[j] = amidx[w][j]
           ELSE /\ Len(index) = Len(amidx[w]) + 1
                /\ index[Len(index)] = amdesc[w]
                /\ \A j \in 1..Len(amidx[w]) : index[j] = amidx[w][j]
C14_Witness ==
    /\ Len(index) = 2
    /\ \E w \in Writers :
         /\ wbpc[w] = "amret"
         /\ wberr[w] = "none"
         /\ IndexOfDigest(amidx[w], amdesc[w].digest) = 1
         /\ amidx[w][1] # amdesc[w]
    /\ \E v \in Writers : wbpc[v] = "idle"

\* C15: a GetIndex after an AddManifest that was cut off by a crash or by a
\* failed write returns an index: the file is never left cut short.
C15_IndexNeverTorn ==
    \A w \in Writers : wbpc[w] = "giret" => wberr[w] = "none"

\* C16: once a manifest request for an image string was answered 200, the
\* index keeps a descriptor annotated with that string, so that the lookup of
\* every later request for it hits, whatever else is pulled in between.
C16_StaysCacheHit ==
    \A h \in Handlers :
      (hpc[h] = "done" /\ hres[h] = 200)
      => findManifestDigest(index, himg[h]) # ""

\* C17: after every operation on a tree, PresentCount is the number of
\* chunks in [0, NumChunks) whose leaf is not empty.
C17_PresentCountExact ==
    mt.PresentCount = Cardinality({i \in 0..(mt.NumChunks - 1) : HasChunk(mt, i)})

\* C18: MissingRanges returns non-empty [start, end) pairs within
\* [0, NumChunks], in increasing order with a present chunk between any two
\* of them, and their union is exactly the set of chunks HasChunk denies.
C18_MissingRangesExact ==
    LET r == MissingRanges(mt) IN
    /\ \A k \in 1..Len(r) : 0 <= r[k][1] /\ r[k][1] < r[k][2] /\ r[k][2] <= mt.NumChunks
    /\ \A k \in 1..(Len(r) - 1) : r[k][2] < r[k + 1][1]
    /\ {i \in 0..(mt.NumChunks - 1) : \E k \in 1..Len(r) : r[k][1] <= i /\ i < r[k][2]}
         = {i \in 0..(mt.NumChunks - 1) : ~HasChunk(mt, i)}
C18_Witness ==
    /\ mtop = "clear"
    /\ mt.NumChunks = 4
    /\ MissingRanges(mt) = << <<0, 1>>, <<2, 4>> >>

\* C19: Deserialize(Serialize(t)) has the TotalSize, ChunkSize, NumChunks,
\* leaves and root of t, and its PresentCount is the number of non-empty
\* leaves of t whatever PresentCount t carried.
C19_RoundTripIdentity ==
    LET r == Deserialize(Serialize(mt)) IN
    /\ r.TotalSize = mt.TotalSize
    /\ r.ChunkSize = mt.ChunkSize
    /\ r.NumChunks = mt.NumChunks
    /\ r.Leaves = mt.Leaves
    /\ Root(r) = Root(mt)
    /\ r.PresentCount = Cardinality({i \in 0..(mt.NumChunks - 1) : HasChunk(mt, i)})
C19_Witness ==
    /\ mtop = "roundtrip"
    /\ mt.NumChunks = 3
    /\ mt.Leaves = <<HashData(<<2, 3>>), EmptyHash, 255, EmptyHash>>
    /\ mt.PresentCount = 2

\* C20: two trees over the same blob and chunk size that were given
\* SetChunk(i, bytes of chunk i) for the same set of chunks, in any order and
\* with any repetitions, have the same leaves, PresentCount and root.
C20_OrderIndependent ==
    {ordA[k] : k \in DOMAIN ordA} = {ordB[k] : k \in DOMAIN ordB}
    => /\ mt.Leaves = mtB.Leaves
       /\ mt.PresentCount = mtB.PresentCount
       /\ Root(mt) = Root(mtB)

\* C21: a manifest request whose pull failed answers with the status of the
\* error kind: 404 for NotFound, 500 for a local Io error, 502 for
\* Unauthorized and any other upstream failure.
C21_StatusReflectsError ==
    \A h \in Handlers :
      (hpc[h] = "done" /\ herr[h] \in PullErrors)
      => hres[h] = CASE herr[h] = "NotFound" -> 404
                     [] herr[h] = "Io" -> 500
                     [] OTHER -> 502

\* C22: a blob request that meets no I/O failure answers 404 when the Layout
\* lacks the blob and otherwise 200 with Docker-Content-Digest the digest
\* asked for and Content-Length the size of the blob, the body only for GET;
\* it leaves the blobs, the index and the in-flight map as they were.
C22_BlobRequest ==
    [][\A d \in BlobDigestArgs, m \in BlobMethods :
         handleBlob(d, m, "none") =>
           /\ IF blobDir[blobPath(d)] = -1
              THEN bresp'.status = 404
              ELSE /\ bresp'.status = 200
                   /\ bresp'.contentDigest = d
                   /\ bresp'.contentLength = blobDir[blobPath(d)]
                   /\ bresp'.body = (m = "GET")
           /\ UNCHANGED <<blobDir, layoutVars, pulling>>]_vars

\* C23: the result of a Pull into an empty cache has Downloaded = TotalSize
\* and Cached = 0; the result of the Pull repeated after it has Downloaded = 0
\* and Cached = TotalSize.
C23_ResultAccounting ==
    ppc = "done_ok" =>
      /\ (runs = 1 /\ crashes = 0) =>
           result.Downloaded = result.TotalSize /\ result.Cached = 0
      /\ warm => result.Downloaded = 0 /\ result.Cached = result.TotalSize

\* C24: against a registry that answers every range GET with 200 and the
\* whole blob, a Pull that meets no other failure and returns a result has
\* left every layer blob equal to the upstream blob, of the declared size.
C24_FullBodyUpstream ==
    (upstream = "fullbody" /\ ppc = "done_ok" /\ faults = 0 /\ crashes = 0)
    => \A k \in 1..Len(Layers) :
         /\ blobs[Layers[k]] = TrueBytes(Layers[k])
         /\ Len(blobs[Layers[k]]) = LayerSizeOf(Layers[k])

\* C25: when downloadChunk hands back a body whose length is not the chunk's
\* length, the step that follows is an error: the partial blob keeps its
\* bytes and the tree does not gain the chunk.
C25_ShortReadRejected ==
    [][(/\ ppc = "write"
        /\ Len(chunkData) # ChunkLength(tree, Head(todo))
        /\ ppc' # "idle")
       => /\ perr' # {}
          /\ partial' = partial
          /\ tree' = tree]_vars

\* C26: a call sends its first request without credentials and at most one
\* more; when the last response was a 401 that is not retried, the call
\* returns the Unauthorized error.
C26_AuthRetryOnce ==
    /\ Len(csent) <= 2
    /\ Len(csent) >= 1 => csent[1] = ""
    /\ (cpc = "ret" /\ clast = 401) => cret = "Unauthorized"


(***************************************************************************)
(* selectPlatform (unnamed/part_011) applied to the manifest list of an    *)
(* image index, on a host whose runtime.GOOS and runtime.GOARCH are given. *)
(***************************************************************************)

PlatFrame == UNCHANGED <<baseVars, blobVars, resVars, clientVars, authVars,
                         fetchVars, pruneVars, openVars>>

\* most entries an index carries
MaxManifests == 3
\* <<Platform.OS, Platform.Architecture>> of an entry
Platforms == {<<"linux", "amd64">>, <<"linux", "arm64">>,
              <<"darwin", "amd64">>, <<"darwin", "arm64">>}
\* <<runtime.GOOS, runtime.GOARCH>> of the build
Hosts == {<<"linux", "amd64">>, <<"linux", "arm64">>, <<"darwin", "arm64">>,
          <<"windows", "amd64">>}

\* a variant of the range loop that keeps going after a match
LastMatch(list, os, arch) ==
    LET hits == {i \in 1..Len(list) : list[i][1] = os /\ list[i][2] = arch}
    IN  IF hits = {} THEN 0 ELSE CHOOSE i \in hits : \A j \in hits : j <= i

\* `for _, m := range list.Manifests { if m.Platform.OS == .. { return } }`:
\* the index of the entry the loop returns at, 0 when it runs to the end
RECURSIVE MatchFrom(_, _, _, _)
MatchFrom(list, os, arch, i) ==
    IF i > Len(list) THEN 0
    ELSE IF list[i][1] = os /\ list[i][2] = arch THEN i
    ELSE MatchFrom(list, os, arch, i + 1)

FirstMatch(list, os, arch) ==
    MatchFrom(list, os, arch, 1)

\* fmt.Sprintf("%s/%s", m.Platform.OS, m.Platform.Architecture) per entry
Available(list) == [i \in 1..Len(list) |-> <<list[i][1], "/", list[i][2]>>]

selectPlatform(list, host) ==
    LET own  == FirstMatch(list, host[1], host[2])
        dflt == FirstMatch(list, "linux", "amd64")
    IN  IF own # 0
        THEN [host |-> host, digest |-> list[own][3], err |-> "none",
              available |-> <<>>]
        ELSE IF dflt # 0
        THEN [host |-> host, digest |-> list[dflt][3], err |-> "none",
              available |-> <<>>]
        ELSE [host |-> host, digest |-> <<>>, err |-> "NoManifest",
              available |-> Available(list)]

\* the registry's index lists one more entry
IndexEntry(pf) ==
    /\ Len(platList) < MaxManifests
    /\ platList' = Append(platList, <<pf[1], pf[2], <<"sha256", Len(platList) + 1>>>>)
    /\ platOut' = NoSelection
    /\ PlatFrame

\* fetchManifest on a manifest list: `selectPlatform(list)` (part_011:121-128)
SelectPlatformCall(host) ==
    /\ platOut = NoSelection
    /\ platOut' = selectPlatform(platList, host)
    /\ UNCHANGED platList
    /\ PlatFrame

\* the next image's index
IndexReset ==
    /\ platOut # NoSelection
    /\ platList' = <<>>
    /\ platOut' = NoSelection
    /\ PlatFrame

NextPlatform ==
    \/ \E pf \in Platforms : IndexEntry(pf)
    \/ \E h \in Hosts : SelectPlatformCall(h)
    \/ IndexReset

InitSpecPlatform == InitLayout /\ InitProxy /\ InitPull /\ InitStore /\ InitWriters

SpecPlatform == InitSpecPlatform /\ [][NextPlatform]_vars

\* entries of platList offering the platform pf
Offering(pf) == {i \in 1..Len(platList) : platList[i][1] = pf[1] /\ platList[i][2] = pf[2]}

\* C27: selectPlatform returns the digest of the first entry of the index
\* whose os and architecture are the host's; when no entry is, the digest of
\* the first linux/amd64 entry; when there is none either, the
\* no-matching-manifest error together with the os/arch pair of every entry
\* in index order, so that an empty index always fails.
C27_SelectPlatform ==
    platOut # NoSelection =>
        LET own  == Offering(platOut.host)
            dflt == Offering(<<"linux", "amd64">>)
            pick == IF own # {} THEN own ELSE dflt
        IN  IF pick # {}
            THEN /\ platOut.err = "none"
                 /\ \E i \in pick : /\ \A j \in pick : i <= j
                                    /\ platOut.digest = platList[i][3]
            ELSE /\ platOut.err = "NoManifest"
                 /\ platOut.digest = <<>>
                 /\ Len(platOut.available) = Len(platList)
                 /\ \A i \in 1..Len(platList) :
                        platOut.available[i] = <<platList[i][1], "/", platList[i][2]>>

\* the host's platform is not offered and the second of two linux/amd64
\* entries is not the one returned
C27_Witness ==
    /\ platOut # NoSelection
    /\ platOut.host = <<"darwin", "arm64">>
    /\ Len(platList) = 3
    /\ platList[1][2] = "arm64" /\ platList[1][1] = "linux"
    /\ platList[2][2] = "amd64" /\ platList[2][1] = "linux"
    /\ platList[3][2] = "amd64" /\ platList[3][1] = "linux"
    /\ platOut.digest = <<"sha256", 2>>

(***************************************************************************)
(* One call of Fetcher.FetchRange (unnamed/part_010) on a Fetcher made by  *)
(* NewFetcher: the retry loop, its backoff waits and the cancellation of   *)
(* the caller's context.                                                   *)
(***************************************************************************)

FetchFrame == UNCHANGED <<baseVars, blobVars, resVars, clientVars, authVars,
                          platVars, pruneVars, openVars>>

\* NewFetcher: maxRetries: 3
maxRetries == 3
\* NewFetcher: retryDelay: time.Second; delays are counted in seconds
retryDelay == 1
\* what fetchRangeOnce returns: the data, or one of its errors
OnceOutcomes == {"data", "status", "short"}

\* a backoff that grows by retryDelay per attempt
DelayLinear(attempt) == retryDelay * attempt

\* `f.retryDelay * time.Duration(1<<(attempt-1))`
Delay(attempt) == retryDelay * 2^(attempt - 1)

\* FetchRange is entered with a live context: `attempt := 0`
FetchRangeCall ==
    /\ fpc \in {"idle", "ret"}
    /\ fpc' = "fetch"
    /\ fattempt' = 0
    /\ fwaits' = <<>>
    /\ fcalls' = <<>>
    /\ fcancelled' = FALSE
    /\ fret' = <<"none">>
    /\ FetchFrame

\* the caller cancels ctx while FetchRange runs
FetchCancel ==
    /\ fpc \in {"wait", "fetch"}
    /\ ~fcancelled
    /\ fcancelled' = TRUE
    /\ UNCHANGED <<fpc, fattempt, fwaits, fcalls, fret>>
    /\ FetchFrame

\* `select { case <-ctx.Done(): return ..."fetch cancelled"; case
\* <-time.After(delay): }`: a context cancelled before the timer fires ends
\* the call, otherwise the delay is waited out
FetchBackoff ==
    /\ fpc = "wait"
    /\ IF fcancelled
       THEN /\ fret' = <<"cancelled">>
            /\ fpc' = "ret"
            /\ UNCHANGED fwaits
       ELSE /\ fwaits' = Append(fwaits, Delay(fattempt))
            /\ fpc' = "fetch"
            /\ UNCHANGED fret
    /\ UNCHANGED <<fattempt, fcalls, fcancelled>>
    /\ FetchFrame

\* fetchRangeOnce and the rest of the loop body; a request on a cancelled
\* context fails
FetchOnce(out) ==
    /\ fpc = "fetch"
    /\ fcancelled => out = "ctx"
    /\ fcalls' = Append(fcalls, out)
    /\ IF out = "data"
       THEN /\ fret' = <<"data">>
            /\ fpc' = "ret"
            /\ UNCHANGED fattempt
       ELSE IF fattempt + 1 <= maxRetries
       THEN /\ fattempt' = fattempt + 1
            /\ fpc' = "wait"
            /\ UNCHANGED fret
       ELSE /\ fattempt' = fattempt + 1
            /\ fret' = <<"failed", out>>
            /\ fpc' = "ret"
    /\ UNCHANGED <<fwaits, fcancelled>>
    /\ FetchFrame

NextFetch ==
    \/ FetchRangeCall
    \/ FetchCancel
    \/ FetchBackoff
    \/ \E out \in OnceOutcomes \cup {"ctx"} : FetchOnce(out)

InitSpecFetch == InitLayout /\ InitProxy /\ InitPull /\ InitStore /\ InitWriters

\* a call that has started keeps running: the timer fires or the context is
\* done, and every request ends
SpecFetch == InitSpecFetch /\ [][NextFetch]_vars
                 /\ WF_vars(FetchBackoff)
                 /\ WF_vars(\E out \in OnceOutcomes \cup {"ctx"} : FetchOnce(out))

\* what holds of a FetchRange call at every point
FetchRangeShape ==
    /\ Len(fcalls) <= 1 + maxRetries
    /\ \A k \in 1..Len(fwaits) : fwaits[k] = retryDelay * 2^(k - 1)
    /\ Len(fwaits) \in {Len(fcalls) - 1, Len(fcalls)}
    /\ \A k \in 1..(Len(fcalls) - 1) : fcalls[k] # "data"
    /\ fret = <<"data">> => fcalls[Len(fcalls)] = "data"
    /\ (fpc = "ret" /\ fret \notin {<<"data">>, <<"cancelled">>}) =>
           /\ Len(fcalls) = 1 + maxRetries
           /\ fret = <<"failed", fcalls[Len(fcalls)]>>
    /\ fret = <<"cancelled">> =>
           /\ fcancelled
           /\ Len(fwaits) = Len(fcalls) - 1
    /\ (fpc = "wait" /\ fcancelled) => ENABLED FetchBackoff

\* C28: FetchRange ends; it calls fetchRangeOnce at most 1 + maxRetries
\* times, waits retryDelay * 2^(k-1) before its k-th retry, makes no call
\* after one that returned data and returns that data, returns the error of
\* the last call once all have failed, and returns the cancellation error
\* with no further call when the context was cancelled by the time of a
\* backoff wait.
C28_FetchRangeBounded ==
    /\ []FetchRangeShape
    /\ [][(fpc = "wait" /\ fcancelled) => (fret' = <<"cancelled">> /\ fcalls' = fcalls)]_fetchVars
    /\ (fpc \in {"wait", "fetch"}) ~> (fpc = "ret")

\* three retries were waited for and the fourth call failed as well
C28_Witness ==
    /\ fpc = "ret"
    /\ Len(fcalls) = 4
    /\ fwaits = <<1, 2, 4>>
    /\ fret = <<"failed", "short">>
    /\ fcalls[1] = "status"

(***************************************************************************)
(* RegistryAuth.GetAuth (pkg/oci/auth.go) against one registry: the token  *)
(* cache, the credentials found on disk, the answer of the registry's      *)
(* /v2/ endpoint and of the token service.                                 *)
(***************************************************************************)

AuthFrame == UNCHANGED <<baseVars, blobVars, resVars, clientVars, platVars,
                         fetchVars, pruneVars, openVars>>

\* repositories of the registry; the cache key is registry + "/" + repo
AuthRepos == {"r/a", "r/b", "r/c"}
\* what GET /v2/ comes back as: http.DefaultClient.Do failing, a status
\* other than 401, a 401 without WWW-Authenticate, a 401 whose challenge
\* names no realm (`Basic realm=".."` parses to the key "Basic realm"), a
\* 401 with a Bearer realm
ChallengeResponses == {"neterr", "non401", "401nohdr", "401basic", "401bearer"}

\* fetchChallenge: <<challenge, err>>; the challenge is "nil" or its realm
fetchChallenge(resp) ==
    CASE resp = "neterr"    -> <<"nil", "err">>
      [] resp = "non401"    -> <<"nil", "none">>
      [] resp = "401nohdr"  -> <<"nil", "none">>
      [] resp = "401basic"  -> <<"", "none">>
      [] resp = "401bearer" -> <<"realm", "none">>

\* GetAuth from `username, password := r.loadCredentials(registry)` on;
\* `err == nil && ch.realm != ""` reads a field through ch
GetAuthUncached(repo, creds, resp, tokenOk) ==
    LET fc  == fetchChallenge(resp)
        out == [repo |-> repo, creds |-> creds, cached |-> FALSE,
                challenge |-> resp, result |-> "", err |-> "none"]
    IN  IF fc[2] = "none" /\ fc[1] = "nil"
        THEN [out EXCEPT !.err = "panic"]
        ELSE IF fc[2] = "none" /\ fc[1] # ""
        THEN IF tokenOk
             THEN [out EXCEPT !.result = "Bearer"]
             ELSE [out EXCEPT !.err = "token"]
        ELSE IF creds
        THEN [out EXCEPT !.result = "Basic"]
        ELSE out

GetAuth(repo, creds, resp, tokenOk) ==
    /\ gaOut' = IF repo \in tokens
                THEN [repo |-> repo, creds |-> creds, cached |-> TRUE,
                      challenge |-> "", result |-> "Bearer", err |-> "none"]
                ELSE GetAuthUncached(repo, creds, resp, tokenOk)
    /\ tokens' = IF gaOut'.result = "Bearer" THEN tokens \cup {repo} ELSE tokens
    /\ AuthFrame

\* five minutes pass: time.Now().Before(entry.expires) is false
TokenExpire(repo) ==
    /\ repo \in tokens
    /\ tokens' = tokens \ {repo}
    /\ UNCHANGED gaOut
    /\ AuthFrame

NextAuth ==
    \/ \E repo \in AuthRepos, creds \in BOOLEAN, resp \in ChallengeResponses,
          tokenOk \in BOOLEAN : GetAuth(repo, creds, resp, tokenOk)
    \/ \E repo \in AuthRepos : TokenExpire(repo)

InitSpecAuth == InitLayout /\ InitProxy /\ InitPull /\ InitStore /\ InitWriters

SpecAuth == InitSpecAuth /\ [][NextAuth]_vars

\* C29: when GET /v2/ advertises no Bearer challenge (a non-401 response,
\* or a 401 without WWW-Authenticate), GetAuth returns without error: the
\* Basic header when credentials exist, the empty header when none do.
C29_NoChallengeFallsBack ==
    gaOut.challenge \in {"non401", "401nohdr"} =>
        /\ gaOut.err = "none"
        /\ gaOut.result = IF gaOut.creds THEN "Basic" ELSE ""

(***************************************************************************)
(* prune.Run (unnamed/part_006) over a layout directory that the Puller    *)
(* and the Store have left partial blobs and resume state in.              *)
(***************************************************************************)

PruneFrame == UNCHANGED <<baseVars, blobVars, resVars, clientVars, authVars,
                          platVars, fetchVars, openVars>>

BlobsDir == <<"blobs", "sha256">>
StateDir == <<".fray">>

\* what pulls leave behind: a finished blob, partial blobs
\* (Layout.WriteBlobAt), the Puller's per-layer state file
\* (<StateDir>/<digest12>.state), a per-layer directory with chunk and tree
\* files
PruneEntries ==
    {DirEntry(BlobsDir, <<"lX">>, FALSE),
     DirEntry(BlobsDir, <<"lX", "partial">>, FALSE),
     DirEntry(BlobsDir, <<"lY", "partial">>, FALSE),
     DirEntry(<<>>, StateDir, TRUE),
     DirEntry(StateDir, <<"lX", "state">>, FALSE),
     DirEntry(StateDir, <<"layer1">>, TRUE),
     DirEntry(<<".fray", "layer1">>, <<"chunk-00000">>, FALSE),
     DirEntry(<<".fray", "layer1">>, <<"tree", "json">>, FALSE)}

\* os.ReadDir(d)
ReadDir(files, d) == {e \in files : e.dir = d}
\* filepath.Join(d, e.Name()) as path components
PathOf(e) == e.dir \o <<IF Len(e.name) = 1 THEN e.name[1] ELSE e.name>>
\* strings.HasSuffix(e.Name(), ".partial")
HasPartialSuffix(e) == Len(e.name) > 1 /\ e.name[Len(e.name)] = "partial"
\* everything at or below the directory entry e
Subtree(files, e) ==
    {e} \cup {x \in files : Len(x.dir) > Len(e.dir) /\ SubSeq(x.dir, 1, Len(e.dir) + 1) = PathOf(e)}
\* calcDirSize: the files below the directory entry e
calcDirFiles(files, e) == Cardinality({x \in Subtree(files, e) : ~x.isDir})

\* a pull or a fetch creates an entry in a directory that exists
PruneWrite(e) ==
    /\ prpc \in {"idle", "done"}
    /\ e \notin pdir
    /\ e.dir = <<>> \/ \E parent \in pdir : parent.isDir /\ PathOf(parent) = e.dir
    /\ pdir' = pdir \cup {e}
    /\ prpc' = "idle"
    /\ prres' = NoPruneResult
    /\ UNCHANGED <<pdir0, prdry, prtodo>>
    /\ PruneFrame

\* Run up to `os.ReadDir(blobDir)`
PruneRun(dryRun) ==
    /\ prpc \in {"idle", "done"}
    /\ prpc' = "partials"
    /\ prdry' = dryRun
    /\ pdir0' = pdir
    /\ prtodo' = ReadDir(pdir, BlobsDir)
    /\ prres' = NoPruneResult
    /\ UNCHANGED pdir
    /\ PruneFrame

\* one round of the loop over blobs/sha256
PrunePartial(e, ok) ==
    /\ prpc = "partials"
    /\ e \in prtodo
    /\ prtodo' = prtodo \ {e}
    /\ IF e.isDir \/ ~HasPartialSuffix(e)
       THEN ok /\ UNCHANGED <<pdir, prres>>
       ELSE IF prdry
       THEN /\ ok
            /\ prres' = [prres EXCEPT !.Files = @ + 1]
            /\ UNCHANGED pdir
       ELSE /\ pdir' = IF ok THEN pdir \ {e} ELSE pdir
            /\ prres' = [Files  |-> prres.Files + 1,
                         Errors |-> prres.Errors + (IF ok THEN 0 ELSE 1)]
    /\ UNCHANGED <<pdir0, prpc, prdry>>
    /\ PruneFrame

\* the first loop is over: `os.ReadDir(stateDir)`
PruneReadStateDir ==
    /\ prpc = "partials"
    /\ prtodo = {}
    /\ prpc' = "states"
    /\ prtodo' = ReadDir(pdir, StateDir)
    /\ UNCHANGED <<pdir, pdir0, prdry, prres>>
    /\ PruneFrame

\* one round of the loop over .fray: `if !e.IsDir() { continue }`
PruneState(e, ok) ==
    /\ prpc = "states"
    /\ e \in prtodo
    /\ prtodo' = prtodo \ {e}
    /\ IF ~e.isDir
       THEN ok /\ UNCHANGED <<pdir, prres>>
       ELSE IF prdry
       THEN /\ ok
            /\ prres' = [prres EXCEPT !.Files = @ + calcDirFiles(pdir, e)]
            /\ UNCHANGED pdir
       ELSE /\ pdir' = IF ok THEN pdir \ Subtree(pdir, e) ELSE pdir
            /\ prres' = [Files  |-> prres.Files + calcDirFiles(pdir, e),
                         Errors |-> prres.Errors + (IF ok THEN 0 ELSE 1)]
    /\ UNCHANGED <<pdir0, prpc, prdry>>
    /\ PruneFrame

\* `return result, nil`
PruneReturn ==
    /\ prpc = "states"
    /\ prtodo = {}
    /\ prpc' = "done"
    /\ UNCHANGED <<pdir, pdir0, prdry, prtodo, prres>>
    /\ PruneFrame

NextPrune ==
    \/ \E e \in PruneEntries : PruneWrite(e)
    \/ \E dryRun \in BOOLEAN : PruneRun(dryRun)
    \/ \E e \in PruneEntries \cup FreshLayout, ok \in BOOLEAN : PrunePartial(e, ok)
    \/ PruneReadStateDir
    \/ \E e \in PruneEntries, ok \in BOOLEAN : PruneState(e, ok)
    \/ PruneReturn

InitSpecPrune == InitLayout /\ InitProxy /\ InitPull /\ InitStore /\ InitWriters

SpecPrune == InitSpecPrune /\ [][NextPrune]_vars

\* what a prune leaves alone: everything that is neither a partial blob nor
\* at or below .fray
Kept(files) ==
    {e \in files : /\ ~(e.dir = BlobsDir /\ HasPartialSuffix(e))
                   /\ ~(e.dir # <<>> /\ e.dir[1] = ".fray")
                   /\ ~(e.dir = <<>> /\ e.name = StateDir)}

\* C30: after a prune that is not a dry run and in which no removal failed,
\* no *.partial file is left in blobs/sha256 and no entry is left in .fray,
\* be it a per-layer state file or a directory; the canonical blobs,
\* index.json and oci-layout are as they were.
C30_PruneRemovesAll ==
    (prpc = "done" /\ ~prdry /\ prres.Errors = 0) =>
        /\ \A e \in ReadDir(pdir, BlobsDir) : e.isDir \/ ~HasPartialSuffix(e)
        /\ ReadDir(pdir, StateDir) = {}
        /\ Kept(pdir) = Kept(pdir0)

(***************************************************************************)
(* Claims about the order of a Pull, the Store's coordinator and workers,  *)
(* the proxy's waiters, and the layout as a whole.                         *)
(***************************************************************************)

\* the download of the layer has left something on the disk
Touched(d) == partial[d] # NoFile \/ stateFile[d] # NoState

\* a layer is touched only after every layer before it in the manifest has
\* its canonical blob, and the index is written only after all have
LayersInOrder ==
    /\ \A k \in 1..Len(Layers) :
          Touched(Layers[k]) => \A j \in 1..(k - 1) : HasBlob(blobs, Layers[j])
    /\ index # <<>> => \A k \in 1..Len(Layers) : HasBlob(blobs, Layers[k])

\* C31: within a Pull the layers are handled in manifest order: nothing of
\* layer k+1 is fetched or written before layer k has its canonical blob,
\* the descriptor is added to the index only after the last layer has, and
\* when the download of layer k has failed (the save itself not failing) the
\* pull has ended with every chunk of layer k's tree recorded in its state
\* file and no later layer touched.
C31_LayersInOrder ==
    /\ LayersInOrder
    /\ (ppc = "done_err" /\ perr \cap LayerErrors # {} /\ "save state" \notin perr)
       => /\ \A j \in (layerIdx + 1)..Len(Layers) : ~Touched(Layers[j])
          /\ StatePresent(stateFile[CurLayer])
               = {i \in 0..(tree.NumChunks - 1) : HasChunk(tree, i)}

\* the tree loadOrCreateTree returned had every chunk
CompleteAtLoad ==
    /\ tree # NoTree
    /\ ppc \in {"finalize", "rmstate"}
    /\ loaded = 0..(tree.NumChunks - 1)

\* C32: a layer whose tree is complete when its download starts is
\* finalized without a fetch and without an error (no fault injected), its
\* state file is removed, and the result counts its size as cached.
C32_CompleteTreeIsCached ==
    /\ [](CompleteAtLoad => fetched = {})
    /\ []((ppc = "done_err" /\ faults = 0 /\ tree # NoTree
             /\ loaded = 0..(tree.NumChunks - 1)) => perr \cap LayerErrors = {})
    /\ [][(CompleteAtLoad /\ ppc = "rmstate" /\ ppc' = "layer")
             => /\ stateFile'[CurLayer] = NoState
                /\ result'.Cached = result.Cached + LayerSizeOf(CurLayer)]_vars

\* the Store with parallelism > 1 only: FetchMissing's goroutines, on a
\* layer cut into chunks of one of the given sizes
WorkersNext(sizes) ==
    \/ \E cs \in sizes, par \in Workers \ {1} : GetOrCreateLayer(cs, par)
    \/ FetchMissing
    \/ CancelCtx
    \/ Feed
    \/ CloseJobs
    \/ \E w \in Workers : WorkerTake(w)
    \/ \E w \in Workers, resp \in FetchOutcomes : WorkerFetch(w, resp)
    \/ \E w \in Workers : WorkerExit(w)
    \/ \E ok \in BOOLEAN : Collect(ok)
    \/ \E ok \in BOOLEAN : ParFinish(ok)

\* at most as many chunks as workers
NextWorkers == WorkersNext(StoreChunkSizes)

InitSpecWorkers == InitLayout /\ InitProxy /\ InitPull /\ InitStore /\ InitWriters

SpecWorkers == InitSpecWorkers /\ [][NextWorkers]_vars

\* more chunks than workers
NextBacklog == WorkersNext({1})

InitSpecBacklog == InitLayout /\ InitProxy /\ InitPull /\ InitStore /\ InitWriters

SpecBacklog == InitSpecBacklog /\ [][NextBacklog]_vars

\* the coordinator of a parallel FetchMissing takes a result off the channel
Receives == spc = "par" /\ si' = si + 1

\* C33: in a parallel FetchMissing the tree, the chunk files and tree.json
\* change only in a step of the coordinator (a result received, or the save
\* before the return), never in a step of a worker or of the feeder; the
\* error held once a result failed is never replaced and is the one
\* returned; and every result that arrives without error, also after an
\* error, is written to its chunk file and passed to the tree's SetChunk (no
\* write fault injected in that step).
C33_CoordinatorOnly ==
    /\ [][(spc = "par" /\ <<stree, chunkFile, treeFile>>' # <<stree, chunkFile, treeFile>>)
             => (Receives \/ spc' = "returned")]_vars
    /\ [][(spc = "par" /\ firstErr # "none") => firstErr' = firstErr]_vars
    /\ [][(Receives /\ Head(results).err # "none" /\ firstErr = "none")
             => firstErr' = Head(results).err]_vars
    /\ [][(Receives /\ Head(results).err = "none" /\ sfaults' = sfaults)
             => /\ chunkFile'[Head(results).chunkIndex] = Head(results).data
                /\ stree' = SetChunk(stree, Head(results).chunkIndex, Head(results).data)]_vars
    /\ [][(spc = "par" /\ spc' = "returned")
             => sret' = IF firstErr = "none" THEN "nil" ELSE firstErr]_vars

\* a parallel FetchMissing returned the error of a failed fetch and has
\* every other chunk in the tree and in its chunk file
C33_Witness ==
    /\ spc = "returned"
    /\ parallelism > 1
    /\ sret = "err"
    /\ Len(missing) >= 2
    /\ completed = Len(missing) - 1
    /\ \A k \in 1..Len(missing) :
          HasChunk(stree, missing[k]) => chunkFile[missing[k]] # NoFile

\* C36: a parallel FetchMissing always returns: while the coordinator
\* waits for a result, one is on the channel or a worker is still there to
\* send one.
C36_CoordinatorNeverStarved ==
    (spc = "par" /\ si < Len(missing))
    => \/ results # <<>>
       \/ \E w \in Workers : wkpc[w] \in {"range", "fetch"}

\* C34: once the pull of an image has ended, its waiters are released with
\* the initiator's error and its entry leaves the in-flight map: a waiter
\* waits only on a pull that still runs or whose done channel is closed, a
\* waiter that returned holds the error the initiator returned, and an entry
\* of the map belongs to a pull that still runs or has its delete pending.
C34_WaitersReleased ==
    /\ \A h \in Handlers :
          hpc[h] = "wait" => (stateDone[hjoin[h]] \/ PullRunning(hjoin[h]))
    /\ \A h \in Handlers :
          (hrole[h] = "waiter" /\ herr[h] # "none") => herr[h] = herr[hjoin[h]]
    /\ \A i \in Images :
          pulling[i] # 0 => (PullRunning(pulling[i]) \/ deleting[i] > 0)

\* C37: a manifest handler whose pullImage returned nil finds a descriptor
\* for its image string in the lookup that follows, whatever other image
\* strings are pulled meanwhile: it never ends on the 500 of 'manifest not
\* found after pull'.
C37_FoundAfterPull ==
    \A h \in Handlers :
        (hpc[h] = "done" /\ herr[h] = "nil") => hdigest[h] # ""

\* C35: in every state of a tree Complete() is true exactly when
\* MissingRanges() is empty, which is exactly when every chunk of
\* [0, NumChunks) has a non-empty leaf; a tree of total size 0 has no chunks
\* and is complete.
C35_CompleteIffNoneMissing ==
    /\ Complete(mt) <=> (MissingRanges(mt) = <<>>)
    /\ (MissingRanges(mt) = <<>>) <=> (\A i \in 0..(mt.NumChunks - 1) : HasChunk(mt, i))
    /\ mt.TotalSize = 0 => (mt.NumChunks = 0 /\ Complete(mt))

(***************************************************************************)
(* Pulls with prune runs between them (internal/prune, pkg/store/pull.go): *)
(* the Puller's layout is the directory `fray prune` is run on.            *)
(***************************************************************************)
\* prune.Run without DryRun on the layout of the Puller, between two pulls:
\* the first loop removes every *.partial of blobs/sha256; the second loop
\* removes the directories of .fray and skips the <digest12>.state files
PruneLayout ==
    /\ ppc \in {"idle", "done_ok", "done_err"}
    /\ \E d \in LayerDigests : partial[d] # NoFile
    /\ partial' = [d \in LayerDigests |-> NoFile]
    /\ UNCHANGED <<blobs, index, stateFile>>
    /\ UNCHANGED <<proxyVars, pullVars, storeVars, writerVars>>

NextResume ==
    \/ NextPull
    \/ PruneLayout

InitSpecResume == InitLayout /\ InitProxy /\ InitPull /\ InitStore /\ InitWriters

SpecResume == InitSpecResume /\ [][NextResume]_vars

\* the bytes of chunk idx of tree t are in the file: the file reaches the end
\* of the chunk and no byte of the chunk is the zero of a gap
ChunkWritten(file, t, idx) ==
    /\ file # NoFile
    /\ \A k \in (ChunkOffset(t, idx) + 1)..(ChunkOffset(t, idx) + ChunkLength(t, idx)) :
          k <= Len(file) /\ file[k] # 0

\* C38: whenever the state file of a layer marks a chunk present and the
\* layer has no canonical blob, the .partial file of the layer holds the
\* bytes of that chunk at its offset; and no canonical layer blob has a byte
\* that was never written.
C38_PresentChunksOnDisk ==
    /\ \A d \in LayerDigests :
          (Loadable(stateFile[d]) /\ ~HasBlob(blobs, d)) =>
              \A i \in StatePresent(stateFile[d]) :
                  ChunkWritten(partial[d], Deserialize(stateFile[d]), i)
    /\ \A d \in LayerDigests :
          HasBlob(blobs, d) => \A k \in 1..Len(blobs[d]) : blobs[d][k] # 0

\* the manifest, the config and every layer of the pulled image are canonical
\* blobs of the layout
ImageBlobsExist(md) ==
    /\ HasBlob(blobs, md)
    /\ HasBlob(blobs, ConfigDigest)
    /\ \A j \in 1..Len(Layers) : HasBlob(blobs, Layers[j])

\* C39: in a layout that only Pull modifies, every descriptor of index.json
\* names a manifest blob that exists, and the config blob and every layer
\* blob of that manifest exist at their canonical paths; hence the digest a
\* manifest lookup of the proxy finds for the image is that of an image
\* whose blobs are all in the layout.
C39_IndexedImageHasBlobs ==
    /\ \A k \in 1..Len(index) : ImageBlobsExist(index[k].digest)
    /\ LET d == findManifestDigest(index, PullImage)
       IN  d # "" => (d = ManifestDigestOf(PullImage) /\ ImageBlobsExist(d))

\* a pull that was cut off by a crash or an error, run again to the end: the
\* image is registered
C39_Witness ==
    /\ ppc = "done_ok"
    /\ runs > 1
    /\ ~warm
    /\ findManifestDigest(index, PullImage) # ""
    /\ result.Downloaded > 0

(***************************************************************************)
(* store.Open (pkg/store/layout.go): the root directory starts empty; a    *)
(* process opens it, uses the Layout, and may die at any step.  The        *)
(* variable `index` is the content of index.json while that file is whole. *)
(***************************************************************************)
OpenFrame ==
    /\ UNCHANGED <<proxyVars, pullVars, storeVars, callVars, apiVars, treeVars>>
    /\ UNCHANGED <<blobVars, resVars, clientVars, authVars, platVars, fetchVars,
                   pruneVars>>
    /\ UNCHANGED <<partial, stateFile>>

\* Open is called: `l := &Layout{root: root}`
OpenCall ==
    /\ opc \in {"idle", "opened", "failed"}
    /\ opc' = "stat"
    /\ openErr' = "none"
    /\ gotIndex' = "none"
    /\ UNCHANGED <<ociLayout, indexJson, blobsMade, blobs, index>>
    /\ OpenFrame

\* Open: `if _, err := os.Stat(layoutPath); err == nil`
OpenStat ==
    /\ opc = "stat"
    /\ opc' = IF ociLayout # "absent" THEN "read" ELSE "mkdir"
    /\ UNCHANGED <<ociLayout, indexJson, blobsMade, openErr, gotIndex, blobs, index>>
    /\ OpenFrame

\* Open: ReadFile and json.Unmarshal of oci-layout, then `return l, nil`
OpenRead ==
    /\ opc = "read"
    /\ IF ociLayout = "whole"
       THEN opc' = "opened" /\ UNCHANGED openErr
       ELSE opc' = "failed" /\ openErr' = "parse oci-layout"
    /\ UNCHANGED <<ociLayout, indexJson, blobsMade, gotIndex, blobs, index>>
    /\ OpenFrame

\* Layout.init: MkdirAll of the root and of blobs/sha256
InitMkdir ==
    /\ opc = "mkdir"
    /\ blobsMade' = TRUE
    /\ opc' = "layout"
    /\ UNCHANGED <<ociLayout, indexJson, openErr, gotIndex, blobs, index>>
    /\ OpenFrame

\* Layout.init: os.WriteFile of oci-layout, the open with O_CREATE|O_TRUNC
InitLayoutCreate ==
    /\ opc = "layout"
    /\ ociLayout' = "empty"
    /\ opc' = "layoutWrite"
    /\ UNCHANGED <<indexJson, blobsMade, openErr, gotIndex, blobs, index>>
    /\ OpenFrame

\* Layout.init: os.WriteFile of oci-layout, the write and the close
InitLayoutWrite ==
    /\ opc = "layoutWrite"
    /\ ociLayout' = "whole"
    /\ opc' = "index"
    /\ UNCHANGED <<indexJson, blobsMade, openErr, gotIndex, blobs, index>>
    /\ OpenFrame

\* Layout.init: os.WriteFile of index.json, the open with O_CREATE|O_TRUNC
InitIndexCreate ==
    /\ opc = "index"
    /\ indexJson' = "empty"
    /\ opc' = "indexWrite"
    /\ UNCHANGED <<ociLayout, blobsMade, openErr, gotIndex, blobs, index>>
    /\ OpenFrame

\* Layout.init: index.json gets the index without manifests; Open returns
InitIndexWrite ==
    /\ opc = "indexWrite"
    /\ indexJson' = "whole"
    /\ index' = <<>>
    /\ opc' = "opened"
    /\ UNCHANGED <<ociLayout, blobsMade, openErr, gotIndex, blobs>>
    /\ OpenFrame

\* Layout.readIndex: "read index" without the file, "parse index" on a file
\* that is not JSON
readIndex ==
    CASE indexJson = "whole"  -> "ok"
      [] indexJson = "absent" -> "read index"
      [] OTHER                -> "parse index"

\* Layout.GetIndex on the Layout that Open returned
OpenedGetIndex ==
    /\ opc = "opened"
    /\ gotIndex' = readIndex
    /\ UNCHANGED <<opc, ociLayout, indexJson, blobsMade, openErr, blobs, index>>
    /\ OpenFrame

\* the opened Layout in use: WriteBlob of a blob
OpenedWriteBlob(digest) ==
    /\ opc = "opened"
    /\ blobsMade
    /\ blobs' = WriteBlob(blobs, digest, TrueBytes(digest))
    /\ UNCHANGED <<openVars, index>>
    /\ OpenFrame

\* the opened Layout in use: AddManifest, which starts with readIndex
OpenedAddManifest(desc) ==
    /\ opc = "opened"
    /\ readIndex = "ok"
    /\ index' = AddManifest(index, desc)
    /\ UNCHANGED <<openVars, blobs>>
    /\ OpenFrame

\* the process dies in Open or with the Layout in hand; the files stay
OpenCrash ==
    /\ opc \notin {"idle", "failed"}
    /\ opc' = "idle"
    /\ openErr' = "none"
    /\ gotIndex' = "none"
    /\ UNCHANGED <<ociLayout, indexJson, blobsMade, blobs, index>>
    /\ OpenFrame

NextOpen ==
    \/ OpenCall
    \/ OpenStat
    \/ OpenRead
    \/ InitMkdir
    \/ InitLayoutCreate
    \/ InitLayoutWrite
    \/ InitIndexCreate
    \/ InitIndexWrite
    \/ OpenedGetIndex
    \/ \E d \in Digests : OpenedWriteBlob(d)
    \/ \E desc \in IndexDescs : OpenedAddManifest(desc)
    \/ OpenCrash

InitSpecOpen == InitLayout /\ InitProxy /\ InitPull /\ InitStore /\ InitWriters

SpecOpen == InitSpecOpen /\ [][NextOpen]_vars

\* a step of Open on a root whose oci-layout file is there
Reopening == opc \in {"stat", "read"} /\ ociLayout # "absent" /\ opc' # "idle"

\* C40: opening a root again leaves index.json and the blobs as they are;
\* and whatever point a process died at during the first initialisation, a
\* later Open of the root returns a Layout, and GetIndex on a Layout that
\* Open returned succeeds.
C40_OpenIdempotentCrashSafe ==
    /\ [][Reopening => UNCHANGED <<index, indexJson, ociLayout, blobs>>]_vars
    /\ [](opc # "failed")
    /\ [](gotIndex \in {"none", "ok"})
====
